---- MODULE Spec2Model ----
(***************************************************************************)
(* Model of the ACT coordination hub: the agent registry                   *)
(* (services/AgentRegistry.ts), the task coordinator                       *)
(* (services/TaskCoordinator.ts) and the socket message handlers of the    *)
(* server entry point (register_agent, create_task, task_progress /        *)
(* update_task_progress, agent_status).                                    *)
(*                                                                         *)
(* Every handler runs to completion as one step.  JavaScript Maps are      *)
(* sequences of records in insertion order, looked up by id.  Optional     *)
(* string fields hold the value Undefined when they are absent.  The       *)
(* performance score is held as an integer number of 1/PerfScale so that   *)
(* the 0.9 / 0.1 / 0.8 blends stay exact for MaxPerfUpdates updates.       *)
(* steps counts the messages handled and handled names the type of the     *)
(* last one.  eventHistory is the Event Hub's ring and emitted the         *)
(* sequence of events sent to every connected client (io.emit), in the     *)
(* order they were sent, replies the sequence of events sent back to the   *)
(* sender of a message alone (socket.emit).  now is the clock in           *)
(* milliseconds.  required and                                             *)
(* selected are the argument and the result of the last direct call of     *)
(* getOptimalAgent, conflicts the result of the last call of               *)
(* detectConflicts.                                                        *)
(*                                                                         *)
(* SpecConc runs the handlers of two messages stretch by stretch, a        *)
(* stretch being the code between two awaits: procs holds where each       *)
(* handler stands and its local variables, queue the microtask queue,      *)
(* inBatch whether the messages of the current turn of the event loop are  *)
(* still being dispatched, origin the server state before the two          *)
(* messages.  timers holds the callbacks setTimeout has scheduled and that  *)
(* have not run yet.                                                       *)
(***************************************************************************)
EXTENDS Integers, Sequences, FiniteSets, TLC

VARIABLES agents, tasks, assignments, socketToAgent, perfUpdates,
          eventHistory, emitted, replies, now, steps, handled, required,
          selected, conflicts,
          procs, queue, inBatch, origin, timers

serverVars == <<agents, tasks, assignments, socketToAgent, perfUpdates,
                eventHistory, emitted, replies, now>>

concVars == <<procs, queue, inBatch, origin, timers>>

vars == <<serverVars, steps, handled, required, selected, conflicts,
          concVars>>

----------------------------------------------------------------------------
(* Bounds of the model *)

MaxTasks == 3
MaxPerfUpdates == 2
MaxSteps == 4

----------------------------------------------------------------------------
(* Values *)

Undefined == "undefined"
EmptyString == ""

AgentIds == {"A1", "A2"}
SocketIds == {"s1"}
Capabilities == {"python"}

(* the ids uuidv4() hands out, in the order it hands them out, and the ids *)
(* a client may choose itself (as the todo demo does)                      *)
TaskIdTable == <<"T1", "T2", "T3", "T4", "T5", "T6", "T7", "T8">>
UuidTaskIds == {TaskIdTable[i] : i \in 1..MaxTasks}
ClientTaskIds == {"setup-backend"}
TaskIds == UuidTaskIds \cup ClientTaskIds

AgentStatuses == {"online", "busy", "offline"}
TaskStatuses == {"pending", "assigned", "in_progress", "completed", "failed"}

PerfScale == 10 * (10 ^ MaxPerfUpdates)

(* averageTaskTime is held as a whole number of 1/AvgScale milliseconds,   *)
(* which keeps MaxPerfUpdates halvings exact                               *)
AvgScale == 2 ^ MaxPerfUpdates

Min(a, b) == IF a <= b THEN a ELSE b
Max(a, b) == IF a >= b THEN a ELSE b

(* a value used in a JavaScript condition: undefined and "" are falsy *)
Truthy(v) == v # Undefined /\ v # EmptyString

(* a message is a record that has a field only when the client sent it *)
Has(data, f) == f \in DOMAIN data

----------------------------------------------------------------------------
(* Map helpers: a Map is a sequence of records with an id, insertion order *)

MapHas(m, id) == \E i \in 1..Len(m) : m[i].id = id
MapIndex(m, id) == CHOOSE i \in 1..Len(m) : m[i].id = id
MapGet(m, id) == m[MapIndex(m, id)]
MapSet(m, rec) ==
    IF MapHas(m, rec.id)
    THEN [m EXCEPT ![MapIndex(m, rec.id)] = rec]
    ELSE Append(m, rec)

(* the whole server state as one value, threaded through the operations *)
State == [agents |-> agents, tasks |-> tasks, assignments |-> assignments,
          socketToAgent |-> socketToAgent, perfUpdates |-> perfUpdates,
          eventHistory |-> eventHistory, emitted |-> emitted,
          replies |-> replies, now |-> now]

----------------------------------------------------------------------------
(* EventHub *)

(* the ring keeps this many events *)
RingCapacity == 1000

(* what an event says: its type and the agent and task it is about *)
Payload(type, agentId, taskId) ==
    [type |-> type, agentId |-> agentId, taskId |-> taskId]

(* the history is never cut *)
trimHistory_never(pushed) == pushed

(* keep only the last RingCapacity events *)
trimHistory(pushed) ==
    IF Len(pushed) > RingCapacity
    THEN SubSeq(pushed, Len(pushed) - RingCapacity + 1, Len(pushed))
    ELSE pushed

(* the event is pushed on the ring, the ring is cut to its last            *)
(* RingCapacity events, and the payload goes to every connected client.    *)
(* seq is the number of the payload on the wire; it stands for the         *)
(* identity of the stored event object                                     *)
broadcastEvent(s, type, agentId, taskId) ==
    LET event == [type |-> type, agentId |-> agentId, taskId |-> taskId,
                  seq |-> Len(s.emitted) + 1]
        pushed == Append(s.eventHistory, event)
    IN [s EXCEPT !.eventHistory = trimHistory(pushed),
                 !.emitted = Append(@, Payload(type, agentId, taskId))]

(* io.emit called by a message handler itself *)
ioEmit(s, type, agentId, taskId) ==
    [s EXCEPT !.emitted = Append(@, Payload(type, agentId, taskId))]

(* socket.emit: the event goes to the sender of the message alone *)
socketEmit(s, type, agentId, taskId) ==
    [s EXCEPT !.replies = Append(@, Payload(type, agentId, taskId))]

getRecentEvents(s, limit) ==
    SubSeq(s.eventHistory, Max(1, Len(s.eventHistory) - limit + 1),
           Len(s.eventHistory))

----------------------------------------------------------------------------
(* AgentRegistry *)

(* every registration starts the counters afresh *)
registerAgent_resetCounters(s, agentId, capabilities, socketId) ==
    LET agent == [id |-> agentId,
                  capabilities |-> capabilities,
                  status |-> "online",
                  socketId |-> socketId,
                  currentTask |-> Undefined,
                  lastSeen |-> s.now,
                  performanceScore |-> PerfScale,
                  tasksCompleted |-> 0,
                  averageTaskTime |-> 0]
        s1 == [s EXCEPT !.agents = MapSet(s.agents, agent),
                        !.socketToAgent =
                            IF Truthy(socketId)
                            THEN [x \in SocketIds |->
                                     IF x = socketId THEN agentId
                                     ELSE s.socketToAgent[x]]
                            ELSE s.socketToAgent]
    IN broadcastEvent(s1, "agent_registered", agentId, Undefined)

registerAgent(s, agentId, capabilities, socketId) ==
    LET known == MapHas(s.agents, agentId)
        existingAgent == MapGet(s.agents, agentId)
        agent == [id |-> agentId,
                  capabilities |-> capabilities,
                  status |-> "online",
                  socketId |-> socketId,
                  currentTask |-> Undefined,
                  lastSeen |-> s.now,
                  performanceScore |->
                      IF known THEN existingAgent.performanceScore ELSE PerfScale,
                  tasksCompleted |->
                      IF known THEN existingAgent.tasksCompleted ELSE 0,
                  averageTaskTime |->
                      IF known THEN existingAgent.averageTaskTime ELSE 0]
        s1 == [s EXCEPT !.agents = MapSet(s.agents, agent),
                        !.socketToAgent =
                            IF Truthy(socketId)
                            THEN [x \in SocketIds |->
                                     IF x = socketId THEN agentId
                                     ELSE s.socketToAgent[x]]
                            ELSE s.socketToAgent]
    IN broadcastEvent(s1, "agent_registered", agentId, Undefined)

(* result.threw is TRUE when the agent is unknown; the state is then untouched *)
updateAgentStatus(s, agentId, status, currentTask) ==
    IF ~MapHas(s.agents, agentId)
    THEN [threw |-> TRUE, s |-> s]
    ELSE LET agent == MapGet(s.agents, agentId)
             a1 == [agent EXCEPT !.status = status,
                                 !.lastSeen = s.now,
                                 !.currentTask =
                                     IF currentTask # Undefined
                                     THEN currentTask ELSE agent.currentTask]
             a2 == IF status = "offline"
                   THEN [a1 EXCEPT !.socketId = Undefined]
                   ELSE a1
             sock == IF status = "offline" /\ Truthy(agent.socketId)
                     THEN [x \in SocketIds |->
                              IF x = agent.socketId THEN Undefined
                              ELSE s.socketToAgent[x]]
                     ELSE s.socketToAgent
         IN [threw |-> FALSE,
             s |-> broadcastEvent([s EXCEPT !.agents = MapSet(s.agents, a2),
                                            !.socketToAgent = sock],
                                  "agent_status_updated", agentId, Undefined)]

(* every online agent, with or without a task *)
getAvailableAgents_anyOnline(ags) ==
    SelectSeq(ags, LAMBDA a : a.status = "online")

getAvailableAgents(ags) ==
    SelectSeq(ags, LAMBDA a : a.status = "online" /\ ~Truthy(a.currentTask))

(* numerator and denominator of matching / required, 1/1 for no requirement *)
calculateCapabilityMatch(agent, requiredCapabilities) ==
    IF Len(requiredCapabilities) = 0
    THEN <<1, 1>>
    ELSE <<Cardinality({i \in 1..Len(requiredCapabilities) :
                           requiredCapabilities[i] \in agent.capabilities}),
           Len(requiredCapabilities)>>

(* the weights of the capability score and of the performance score       *)
(* exchanged                                                               *)
totalScore_performanceFirst(agent, requiredCapabilities) ==
    LET cap == calculateCapabilityMatch(agent, requiredCapabilities)
        workloadTenths == IF agent.status = "online" THEN 10 ELSE 5
    IN 30 * PerfScale * cap[1]
       + 60 * agent.performanceScore * cap[2]
       + workloadTenths * PerfScale * cap[2]

(* totalScore * 100 * PerfScale * (denominator of the capability score) *)
totalScore(agent, requiredCapabilities) ==
    LET cap == calculateCapabilityMatch(agent, requiredCapabilities)
        workloadTenths == IF agent.status = "online" THEN 10 ELSE 5
    IN 60 * PerfScale * cap[1]
       + 30 * agent.performanceScore * cap[2]
       + workloadTenths * PerfScale * cap[2]

(* lowest score first *)
compareScored_ascending(a, b) == a.score - b.score

(* the comparator of the sort: negative when a goes before b *)
compareScored(a, b) == b.score - a.score

(* Array.prototype.sort is stable: an element goes behind every element    *)
(* the comparator does not put after it                                    *)
insertScored(sorted, x) ==
    LET k == Cardinality({i \in 1..Len(sorted) :
                             compareScored(sorted[i], x) <= 0})
    IN SubSeq(sorted, 1, k) \o <<x>> \o SubSeq(sorted, k + 1, Len(sorted))

RECURSIVE sortScored(_)
sortScored(scored) ==
    IF Len(scored) = 0
    THEN scored
    ELSE insertScored(sortScored(SubSeq(scored, 1, Len(scored) - 1)),
                      scored[Len(scored)])

(* the id of the best available agent, Undefined for null *)
getOptimalAgent(ags, requiredCapabilities) ==
    LET availableAgents == getAvailableAgents(ags)
        scoredAgents ==
            [i \in 1..Len(availableAgents) |->
                [agent |-> availableAgents[i],
                 score |-> totalScore(availableAgents[i],
                                      requiredCapabilities)]]
    IN IF Len(availableAgents) = 0
       THEN Undefined
       ELSE sortScored(scoredAgents)[1].agent.id

(* the registry left in the order of the scores *)
registryAfterSelect_sorted(ags, requiredCapabilities) ==
    LET scoredAgents ==
            [i \in 1..Len(ags) |->
                [agent |-> ags[i],
                 score |-> totalScore(ags[i], requiredCapabilities)]]
    IN [i \in 1..Len(ags) |-> sortScored(scoredAgents)[i].agent]

(* the registry after getOptimalAgent: filter and map build new arrays,    *)
(* sort orders the mapped array, and no agent is written                   *)
registryAfterSelect(ags, requiredCapabilities) == ags

(* efficiency * 10: clamp(60000 / taskDuration, 0.1, 2.0); 60000 / 0 is    *)
(* Infinity and clamps to 2.0                                              *)
efficiencyTenths(taskDuration) ==
    IF taskDuration = 0 THEN 20
    ELSE IF 600000 >= 20 * taskDuration THEN 20
    ELSE IF 600000 <= taskDuration THEN 1
    ELSE 600000 \div taskDuration

(* the score a failure leaves, without the lower limit *)
scoreAfterFailure_unclamped(performanceScore) ==
    (performanceScore * 8) \div 10

(* Math.max(0.1, performanceScore * 0.8) *)
scoreAfterFailure(performanceScore) ==
    Max(PerfScale \div 10, (performanceScore * 8) \div 10)

(* Math.min(2.0, performanceScore * 0.9 + efficiency * 0.1) *)
scoreAfterSuccess(performanceScore, efficiency) ==
    Min(2 * PerfScale, (performanceScore * 9 + efficiency) \div 10)

updateAgentPerformance(s, agentId, taskDuration, success) ==
    IF ~MapHas(s.agents, agentId)
    THEN s
    ELSE LET agent == MapGet(s.agents, agentId)
             eff == efficiencyTenths(taskDuration) * (PerfScale \div 10)
             a1 == IF success
                   THEN [agent EXCEPT
                            !.tasksCompleted = @ + 1,
                            !.averageTaskTime =
                                IF @ = 0 THEN taskDuration * AvgScale
                                ELSE (@ + taskDuration * AvgScale) \div 2,
                            !.performanceScore = scoreAfterSuccess(@, eff)]
                   ELSE [agent EXCEPT
                            !.performanceScore = scoreAfterFailure(@)]
         IN broadcastEvent([s EXCEPT !.agents = MapSet(s.agents, a1),
                                     !.perfUpdates = @ + 1],
                           "agent_performance_updated", agentId, Undefined)

----------------------------------------------------------------------------
(* TaskCoordinator *)

(* the id uuidv4() returns: one no task carries *)
uuidv4(tks) ==
    TaskIdTable[CHOOSE i \in 1..MaxTasks :
                   /\ ~MapHas(tks, TaskIdTable[i])
                   /\ \A j \in 1..(i - 1) : MapHas(tks, TaskIdTable[j])]

(* taskData carries the fields of the client's message; the spread        *)
(* ...taskData lets id, status, progress and assignedAgent replace the     *)
(* defaults                                                                *)
createTask(s, taskData) ==
    LET task == [id |-> IF Has(taskData, "id")
                        THEN taskData.id ELSE uuidv4(s.tasks),
                 description |->
                     IF Has(taskData, "description")
                        /\ Truthy(taskData.description)
                     THEN taskData.description ELSE "Untitled task",
                 requiredCapabilities |->
                     IF Has(taskData, "requiredCapabilities")
                     THEN taskData.requiredCapabilities ELSE <<>>,
                 priority |-> IF Has(taskData, "priority")
                                 /\ Truthy(taskData.priority)
                              THEN taskData.priority ELSE "medium",
                 status |-> IF Has(taskData, "status")
                            THEN taskData.status ELSE "pending",
                 assignedAgent |-> IF Has(taskData, "assignedAgent")
                                   THEN taskData.assignedAgent ELSE Undefined,
                 dependencies |-> IF Has(taskData, "dependencies")
                                  THEN taskData.dependencies ELSE <<>>,
                 progress |-> IF Has(taskData, "progress")
                              THEN taskData.progress ELSE 0,
                 startedAt |-> FALSE]
    IN [task |-> task,
        s |-> broadcastEvent([s EXCEPT !.tasks = MapSet(s.tasks, task)],
                             "task_created", Undefined, task.id)]

checkDependencies(tks, task) ==
    SelectSeq(task.dependencies,
              LAMBDA depId : ~MapHas(tks, depId)
                             \/ MapGet(tks, depId).status # "completed")

(* assignOptimalAgent in the three stretches its two awaits cut it into.  *)
(* aoaEnter: up to the call of checkDependencies; "throw" or whether a     *)
(* dependency is uncompleted                                               *)
aoaEnter(s, taskId) ==
    IF ~MapHas(s.tasks, taskId)
    THEN [result |-> "throw", uncompleted |-> FALSE]
    ELSE LET task == MapGet(s.tasks, taskId)
         IN IF task.status # "pending"
            THEN [result |-> "throw", uncompleted |-> FALSE]
            ELSE [result |-> "ok",
                  uncompleted |-> Len(checkDependencies(s.tasks, task)) > 0]

(* aoaSelect: from the dependency result to the call of updateAgentStatus; *)
(* result "null" leaves the state untouched                                *)
aoaSelect(s, taskId, uncompleted) ==
    LET task == MapGet(s.tasks, taskId)
        optimalAgent == getOptimalAgent(s.agents, task.requiredCapabilities)
    IN IF uncompleted \/ optimalAgent = Undefined
       THEN [result |-> "null", agentId |-> Undefined, s |-> s]
       ELSE LET t1 == [task EXCEPT !.status = "assigned",
                                   !.assignedAgent = optimalAgent]
                s1 == [s EXCEPT !.tasks = MapSet(s.tasks, t1)]
            IN [result |-> "assigned", agentId |-> optimalAgent,
                s |-> updateAgentStatus(s1, optimalAgent, "busy", task.id).s]

(* aoaRecord: the assignment record and the task_assigned event *)
aoaRecord(s, taskId, agentId) ==
    broadcastEvent([s EXCEPT !.assignments =
                       [x \in TaskIds |->
                           IF x = taskId THEN agentId ELSE s.assignments[x]]],
                   "task_assigned", agentId, taskId)

(* result: "throw" (state untouched), "null" (state untouched), "assigned" *)
assignOptimalAgent(s, taskId) ==
    LET e == aoaEnter(s, taskId)
        sel == aoaSelect(s, taskId, e.uncompleted)
    IN IF e.result = "throw"
       THEN [result |-> "throw", s |-> s]
       ELSE IF sel.result = "null"
       THEN [result |-> "null", s |-> s]
       ELSE [result |-> "assigned",
             s |-> aoaRecord(sel.s, taskId, sel.agentId)]

(* the snapshot of pending tasks is walked in insertion order; a failed    *)
(* assignment is logged and the walk goes on                               *)
RECURSIVE processPendingFrom(_, _, _)
processPendingFrom(s, pendingTasks, i) ==
    IF i > Len(pendingTasks)
    THEN s
    ELSE processPendingFrom(assignOptimalAgent(s, pendingTasks[i].id).s,
                            pendingTasks, i + 1)

(* the pending tasks are walked from the one created last *)
processPendingTasks_latestFirst(s) ==
    LET pendingTasks == SelectSeq(s.tasks, LAMBDA t : t.status = "pending")
    IN processPendingFrom(s,
                          [k \in 1..Len(pendingTasks) |->
                              pendingTasks[Len(pendingTasks) + 1 - k]],
                          1)

processPendingTasks(s) ==
    processPendingFrom(s, SelectSeq(s.tasks, LAMBDA t : t.status = "pending"), 1)

handleTaskCompletion(s, task, duration) ==
    IF Truthy(task.assignedAgent)
    THEN updateAgentStatus(
             updateAgentPerformance(s, task.assignedAgent,
                                    IF task.startedAt THEN duration ELSE 0,
                                    TRUE),
             task.assignedAgent, "online", Undefined)
    ELSE [threw |-> FALSE, s |-> s]

handleTaskFailure(s, task) ==
    IF Truthy(task.assignedAgent)
    THEN updateAgentStatus(
             updateAgentPerformance(s, task.assignedAgent, 0, FALSE),
             task.assignedAgent, "online", Undefined)
    ELSE [threw |-> FALSE, s |-> s]

(* utpApply: the progress and status the update writes on the task *)
utpApply(s, taskId, update) ==
    LET task == MapGet(s.tasks, taskId)
        newStatus == IF Has(update, "status") THEN update.status
                     ELSE Undefined
        t1 == IF Has(update, "progress")
              THEN [task EXCEPT !.progress =
                       Max(0, Min(100, update.progress))]
              ELSE task
        t2 == IF ~Truthy(newStatus) THEN t1
              ELSE IF newStatus = "in_progress"
              THEN [t1 EXCEPT !.status = newStatus,
                              !.startedAt = TRUE]
              ELSE IF newStatus = "completed"
              THEN [t1 EXCEPT !.status = newStatus,
                              !.progress = 100]
              ELSE [t1 EXCEPT !.status = newStatus]
    IN [s EXCEPT !.tasks = MapSet(s.tasks, t2)]

(* duration is completedAt - startedAt as the clock gives it (completedAt  *)
(* is set just before it is read, so only startedAt is kept).  When        *)
(* updateAgentStatus throws inside a completion or failure the changes     *)
(* made up to there stay and the rest of the method is skipped             *)
updateTaskProgress(s, taskId, update, duration) ==
    IF ~MapHas(s.tasks, taskId)
    THEN [threw |-> TRUE, s |-> s]
    ELSE LET previousStatus == MapGet(s.tasks, taskId).status
             newStatus == IF Has(update, "status") THEN update.status
                          ELSE Undefined
             s1 == utpApply(s, taskId, update)
             t2 == MapGet(s1.tasks, taskId)
             h == IF newStatus = "completed"
                  THEN handleTaskCompletion(s1, t2, duration)
                  ELSE IF newStatus = "failed"
                  THEN handleTaskFailure(s1, t2)
                  ELSE [threw |-> FALSE, s |-> s1]
             s2 == broadcastEvent(h.s, "task_progress_updated", Undefined,
                                  taskId)
         IN IF h.threw
            THEN [threw |-> TRUE, s |-> h.s]
            ELSE IF previousStatus # "completed" /\ t2.status = "completed"
            THEN [threw |-> FALSE, s |-> processPendingTasks(s2)]
            ELSE [threw |-> FALSE, s |-> s2]

----------------------------------------------------------------------------
(* Conflict detection.  The dependency graph is the task map itself: its   *)
(* keys are the task ids in insertion order and a key's value is the       *)
(* task's dependency list.  The traversal threads visited, recursionStack  *)
(* and cycles through the calls of dfs as the record ds.                   *)

graphGet(tks, node) ==
    IF MapHas(tks, node) THEN MapGet(tks, node).dependencies ELSE <<>>

indexOf(path, x) ==
    CHOOSE i \in 1..Len(path) :
        path[i] = x /\ \A j \in 1..(i - 1) : path[j] # x

(* the whole path is reported *)
cycleSlice_wholePath(path, dep) == path

(* path.slice(path.indexOf(dep)) *)
cycleSlice(path, dep) == SubSeq(path, indexOf(path, dep), Len(path))

RECURSIVE dfs(_, _, _, _)
RECURSIVE dfsDependencies(_, _, _, _, _)

(* the loop over the dependencies of the node at the end of path, from the *)
(* k-th dependency on                                                      *)
dfsDependencies(tks, dependencies, k, path, ds) ==
    IF k > Len(dependencies)
    THEN ds
    ELSE LET dep == dependencies[k]
             d1 == IF dep \notin ds.visited
                   THEN dfs(tks, dep, path, ds)
                   ELSE IF dep \in ds.recursionStack
                   THEN [ds EXCEPT !.cycles =
                                      Append(@, cycleSlice(path, dep))]
                   ELSE ds
         IN dfsDependencies(tks, dependencies, k + 1, path, d1)

dfs(tks, node, path, ds) ==
    LET path1 == Append(path, node)
        d0 == [ds EXCEPT !.visited = @ \cup {node},
                         !.recursionStack = @ \cup {node}]
        d1 == dfsDependencies(tks, graphGet(tks, node), 1, path1, d0)
    IN [d1 EXCEPT !.recursionStack = @ \ {node}]

(* the loop over the keys of the graph, from the i-th key on *)
RECURSIVE detectCyclesFrom(_, _, _)
detectCyclesFrom(tks, i, ds) ==
    IF i > Len(tks)
    THEN ds
    ELSE detectCyclesFrom(tks, i + 1,
                          IF tks[i].id \notin ds.visited
                          THEN dfs(tks, tks[i].id, <<>>, ds)
                          ELSE ds)

detectCycles(tks) ==
    detectCyclesFrom(tks, 1, [visited |-> {}, recursionStack |-> {},
                              cycles |-> <<>>]).cycles

(* suggestedResolution holds the values the text is made of: the agent id *)
(* and, for a capability mismatch, the missing capabilities in the order   *)
(* of the task's requirement                                               *)
Conflict(type, involvedTasks, involvedAgents, severity, suggestedResolution) ==
    [type |-> type, involvedTasks |-> involvedTasks,
     involvedAgents |-> involvedAgents, severity |-> severity,
     suggestedResolution |-> suggestedResolution]

(* a busy agent is given the one task it holds as its current task *)
resourceContention_currentTask(ags, tks) ==
    LET busyAgents == SelectSeq(ags, LAMBDA a : a.status = "busy")
        agentTasks(a) == SelectSeq(tks, LAMBDA task : task.id = a.currentTask)
        contended == SelectSeq(busyAgents, LAMBDA a : Len(agentTasks(a)) > 1)
    IN [k \in 1..Len(contended) |->
           Conflict("resource_contention",
                    [j \in 1..Len(agentTasks(contended[k])) |->
                        agentTasks(contended[k])[j].id],
                    <<contended[k].id>>, "medium", <<contended[k].id>>)]

(* one conflict for every busy agent that more than one task names *)
resourceContention(ags, tks) ==
    LET busyAgents == SelectSeq(ags, LAMBDA a : a.status = "busy")
        agentTasks(a) == SelectSeq(tks, LAMBDA task : task.assignedAgent = a.id)
        contended == SelectSeq(busyAgents, LAMBDA a : Len(agentTasks(a)) > 1)
    IN [k \in 1..Len(contended) |->
           Conflict("resource_contention",
                    [j \in 1..Len(agentTasks(contended[k])) |->
                        agentTasks(contended[k])[j].id],
                    <<contended[k].id>>, "medium", <<contended[k].id>>)]

dependencyDeadlock(tks) ==
    LET cycles == detectCycles(tks)
    IN [k \in 1..Len(cycles) |->
           Conflict("dependency_deadlock", cycles[k], <<>>, "high", <<>>)]

(* requiredCapabilities.filter(cap => !agent.capabilities.includes(cap)) *)
missingCapabilities(agent, task) ==
    SelectSeq(task.requiredCapabilities,
              LAMBDA cap : cap \notin agent.capabilities)

(* the tasks detection looks at for a mismatch, whatever their status *)
mismatchCandidates_anyStatus(tks) ==
    SelectSeq(tks, LAMBDA task : TRUE)

(* the tasks in assigned or in_progress *)
mismatchCandidates(tks) ==
    SelectSeq(tks, LAMBDA task : task.status \in {"assigned", "in_progress"})

(* one conflict for every assigned or in_progress task whose agent exists  *)
(* and lacks a required capability                                         *)
capabilityMismatch(ags, tks) ==
    LET mismatched ==
            SelectSeq(mismatchCandidates(tks),
                      LAMBDA task :
                          /\ Truthy(task.assignedAgent)
                          /\ MapHas(ags, task.assignedAgent)
                          /\ Len(missingCapabilities(
                                     MapGet(ags, task.assignedAgent), task))
                                > 0)
    IN [k \in 1..Len(mismatched) |->
           Conflict("capability_mismatch", <<mismatched[k].id>>,
                    <<mismatched[k].assignedAgent>>, "low",
                    <<mismatched[k].assignedAgent>>
                    \o missingCapabilities(
                           MapGet(ags, mismatched[k].assignedAgent),
                           mismatched[k]))]

(* the list detectConflicts returns *)
detectConflicts(s) ==
    resourceContention(s.agents, s.tasks)
    \o dependencyDeadlock(s.tasks)
    \o capabilityMismatch(s.agents, s.tasks)

(* detectConflicts emits conflicts_detected when the list is not empty *)
(* the data of the conflicts_detected event: the listener copies the five *)
(* fields of every conflict                                                *)
conflictsData(found) ==
    [k \in 1..Len(found) |->
        [type |-> found[k].type,
         severity |-> found[k].severity,
         involvedTasks |-> found[k].involvedTasks,
         involvedAgents |-> found[k].involvedAgents,
         suggestedResolution |-> found[k].suggestedResolution]]

(* broadcastEvent of conflicts_detected: the data has neither agentId nor  *)
(* taskId and carries the conflicts                                        *)
broadcastConflicts(s, found) ==
    LET pushed == Append(s.eventHistory,
                         [type |-> "conflicts_detected",
                          agentId |-> Undefined, taskId |-> Undefined,
                          conflicts |-> conflictsData(found),
                          seq |-> Len(s.emitted) + 1])
    IN [s EXCEPT !.eventHistory = trimHistory(pushed),
                 !.emitted = Append(@, [type |-> "conflicts_detected",
                                        agentId |-> Undefined,
                                        taskId |-> Undefined,
                                        conflicts |-> conflictsData(found)])]

(* the event is emitted whatever the list holds *)
emitConflictsDetected_always(s, found) ==
    broadcastConflicts(s, found)

(* if (conflicts.length > 0) this.emit('conflicts_detected', conflicts) *)
emitConflictsDetected(s, found) ==
    IF Len(found) > 0
    THEN broadcastConflicts(s, found)
    ELSE s

----------------------------------------------------------------------------
(* Socket message handlers of the server entry point.  A handler catches   *)
(* what the services throw, so the state it leaves is the state at the     *)
(* throw.                                                                  *)

onRegisterAgent(s, agentId, capabilities, socketId) ==
    ioEmit(socketEmit(registerAgent(s, agentId, capabilities, socketId),
                      "agent_registered", agentId, Undefined),
           "agent_joined", agentId, Undefined)

onCreateTask(s, data) ==
    LET c == createTask(s, data)
        a == assignOptimalAgent(c.s, c.task.id)
    IN IF a.result = "throw"
       THEN socketEmit(a.s, "task_error", Undefined, Undefined)
       ELSE socketEmit(
                IF a.result = "assigned"
                THEN ioEmit(a.s, "task_assigned",
                            MapGet(a.s.tasks, c.task.id).assignedAgent,
                            c.task.id)
                ELSE ioEmit(a.s, "task_pending", Undefined, c.task.id),
                "task_created", Undefined, c.task.id)

onTaskProgress(s, taskId, update, duration) ==
    LET u == updateTaskProgress(s, taskId, update, duration)
    IN IF u.threw
       THEN u.s
       ELSE ioEmit(u.s, "task_progress", Undefined, taskId)

onAgentStatus(s, data) ==
    LET u == updateAgentStatus(s, data.agentId, data.status,
                               IF Has(data, "currentTask")
                               THEN data.currentTask ELSE Undefined)
    IN IF u.threw
       THEN u.s
       ELSE ioEmit(u.s, "agent_status_update", data.agentId, Undefined)

(* the connection handler registers no listener for the close of the      *)
(* socket: nothing is done                                                 *)
onDisconnect(s, socketId) == s

----------------------------------------------------------------------------
(* Inputs of the messages *)

CapabilityInputs == SUBSET Capabilities

RequiredInputs == {<<>>} \cup {<<c>> : c \in Capabilities}

(* a client names the tasks it has seen and the ids it chose itself *)
KnownTaskIds(tks) == {tks[i].id : i \in 1..Len(tks)} \cup ClientTaskIds

DependencyInputs(tks) == {<<>>} \cup {<<d>> : d \in KnownTaskIds(tks)}

ProgressInputs == {-5, 120}

Durations == {0, 60000}

(* the fields of a create_task message that reach the task through the     *)
(* spread; a message sets at most one of them                              *)
OverrideInputs ==
    {<<>>}
    \cup {[id |-> i] : i \in ClientTaskIds}
    \cup {[status |-> st] : st \in {"assigned", "completed"}}
    \cup {[progress |-> 40]}
    \cup {[assignedAgent |-> a] : a \in AgentIds}
    \cup {[description |-> EmptyString]}

CreateInputs(tks) ==
    {[requiredCapabilities |-> r, dependencies |-> d] :
        r \in RequiredInputs, d \in DependencyInputs(tks)}
    \cup {o @@ [requiredCapabilities |-> <<>>, dependencies |-> <<>>] :
            o \in OverrideInputs}

UpdateInputs ==
    {[progress |-> p] : p \in ProgressInputs}
    \cup {[status |-> st] : st \in TaskStatuses}
    \cup {[progress |-> -5, status |-> "completed"]}

AgentStatusInputs ==
    {[agentId |-> a, status |-> st] : a \in AgentIds, st \in AgentStatuses}
    \cup {[agentId |-> a, status |-> st, currentTask |-> ct] :
            a \in AgentIds, st \in AgentStatuses,
            ct \in {EmptyString}}

----------------------------------------------------------------------------
(* The state machine: one step per inbound message, handled to the end *)

Install(s, type) ==
    /\ handled' = type
    /\ agents' = s.agents
    /\ tasks' = s.tasks
    /\ assignments' = s.assignments
    /\ socketToAgent' = s.socketToAgent
    /\ perfUpdates' = s.perfUpdates
    /\ eventHistory' = s.eventHistory
    /\ emitted' = s.emitted
    /\ replies' = s.replies
    /\ now' = s.now
    /\ steps' = steps + 1
    /\ UNCHANGED <<required, selected, conflicts, concVars>>

(* no direct call of getOptimalAgent or detectConflicts has been made *)
NotCalled == "not called"

(* conflicts before detectConflicts was called: a list no detection returns *)
NotDetected == <<[type |-> "not called"]>>

(* the two messages handled stretch by stretch, and a handler not started *)
Slots == {1, 2}
IdleProc == [type |-> "idle", pc |-> "idle"]

(* the state after construction, but for the registry and the tasks *)
InitRest ==
    /\ assignments = [x \in TaskIds |-> Undefined]
    /\ socketToAgent = [x \in SocketIds |-> Undefined]
    /\ perfUpdates = 0
    /\ eventHistory = <<>>
    /\ emitted = <<>>
    /\ replies = <<>>
    /\ now = 0
    /\ steps = 0
    /\ handled = "none"
    /\ required = <<>>
    /\ selected = NotCalled
    /\ conflicts = NotDetected
    /\ procs = [h \in Slots |-> IdleProc]
    /\ queue = <<>>
    /\ inBatch = FALSE
    /\ origin = <<>>
    /\ timers = <<>>

Init ==
    /\ agents = <<>>
    /\ tasks = <<>>
    /\ InitRest

RegisterAgentMsg ==
    /\ steps < MaxSteps
    /\ \E a \in AgentIds, c \in CapabilityInputs, sock \in SocketIds :
          Install(onRegisterAgent(State, a, c, sock), "register_agent")

CreateTaskMsg ==
    /\ steps < MaxSteps
    /\ \E data \in CreateInputs(tasks) :
          /\ Len(tasks) < MaxTasks \/ (Has(data, "id") /\ MapHas(tasks, data.id))
          /\ Install(onCreateTask(State, data), "create_task")

TaskProgressMsg ==
    /\ steps < MaxSteps
    /\ \E t \in KnownTaskIds(tasks), u \in UpdateInputs, d \in Durations :
          LET s == onTaskProgress(State, t, u, d)
          IN /\ s.perfUpdates <= MaxPerfUpdates
             /\ Install(s, "task_progress")

AgentStatusMsg ==
    /\ steps < MaxSteps
    /\ \E data \in AgentStatusInputs :
          Install(onAgentStatus(State, data), "agent_status")

ChannelClose ==
    /\ steps < MaxSteps
    /\ \E sock \in SocketIds :
          Install(onDisconnect(State, sock), "disconnect")

Next ==
    \/ RegisterAgentMsg
    \/ CreateTaskMsg
    \/ TaskProgressMsg
    \/ AgentStatusMsg
    \/ ChannelClose

Spec == Init /\ [][Next]_vars

----------------------------------------------------------------------------
(* Selection on its own: getOptimalAgent called on registries the server   *)
(* can hold.  The i-th agent registered has the i-th id.  An agent is      *)
(* online or offline, busy with T1, or online with a current task that is  *)
(* the empty string (set by an agent_status message) or the task it has    *)
(* completed; it has none, one or both of two capabilities, and its score  *)
(* is the initial 1.0, 0.8 after a failure or 1.1 after a fast success.    *)

MaxSelectAgents == 2

AgentIdTable == <<"A1", "A2", "A3", "A4">>
SelectCapabilities == {{}, {"python"}, {"python", "react"}}
SelectAvailabilities ==
    {<<"online", Undefined>>, <<"online", EmptyString>>, <<"online", "T1">>,
     <<"busy", "T1">>, <<"offline", Undefined>>}
SelectPerformances == {8 * (PerfScale \div 10), PerfScale,
                       11 * (PerfScale \div 10)}

SelectProfiles ==
    [capabilities : SelectCapabilities, availability : SelectAvailabilities,
     performanceScore : SelectPerformances]

SelectAgent(i, profile) ==
    [id |-> AgentIdTable[i],
     capabilities |-> profile.capabilities,
     status |-> profile.availability[1],
     socketId |-> Undefined,
     currentTask |-> profile.availability[2],
     lastSeen |-> 0,
     performanceScore |-> profile.performanceScore,
     tasksCompleted |-> 0,
     averageTaskTime |-> 0]

SelectRegistry(profiles) ==
    [i \in 1..Len(profiles) |-> SelectAgent(i, profiles[i])]

SelectRequiredInputs ==
    {<<>>, <<"python">>, <<"react">>, <<"python", "react">>,
     <<"go", "python">>}

InitSelect ==
    /\ \E n \in 0..MaxSelectAgents :
          \E profiles \in [1..n -> SelectProfiles] :
             agents = SelectRegistry(profiles)
    /\ tasks = <<>>
    /\ InitRest

(* a first call with any requirement, then calls that repeat it *)
SelectCall ==
    /\ \E r \in SelectRequiredInputs :
          /\ selected = NotCalled \/ r = required
          /\ required' = r
          /\ selected' = getOptimalAgent(agents, r)
          /\ agents' = registryAfterSelect(agents, r)
    /\ handled' = IF selected = NotCalled THEN "select" ELSE "select_again"
    /\ UNCHANGED <<tasks, assignments, socketToAgent, perfUpdates,
                   eventHistory, emitted, replies, now, steps, conflicts,
                   concVars>>

NextSelect == SelectCall

SpecSelect == InitSelect /\ [][NextSelect]_vars

----------------------------------------------------------------------------
(* Selection over the whole range of the performance score: idle and busy  *)
(* agents whose score is at or next to a limit of 0.1 .. 2.0 or in the     *)
(* middle.                                                                 *)

MaxScoreAgents == 2

ScorePerformances == {k * (PerfScale \div 10) : k \in {1, 2, 10, 19, 20}}

ScoreProfiles ==
    [capabilities : SelectCapabilities,
     availability : {<<"online", Undefined>>, <<"busy", "T1">>},
     performanceScore : ScorePerformances]

InitScore ==
    /\ \E n \in 0..MaxScoreAgents :
          \E profiles \in [1..n -> ScoreProfiles] :
             agents = SelectRegistry(profiles)
    /\ tasks = <<>>
    /\ InitRest

NextScore == SelectCall

SpecScore == InitScore /\ [][NextScore]_vars

----------------------------------------------------------------------------
(* The performance score on its own: updateAgentPerformance applied to an  *)
(* agent whose score is anywhere on a grid of tenths over 0.1 .. 2.0, so   *)
(* that the limits of the score are met within MaxPerfUpdates updates.     *)
(* 0.1 is the score after eleven failures, 1.0 the score of a new agent.   *)

PerfGrid == {k * (PerfScale \div 10) : k \in 1..20}

(* durations whose efficiency 60000 / duration is a whole number of tenths *)
(* or is cut to 0.1 or 2.0                                                 *)
PerfDurations == {0, 1, 40000, 60000, 120000, 600000, 700000}

InitPerf ==
    /\ \E p \in PerfGrid :
          agents = <<[SelectAgent(1, [capabilities |-> {},
                                      availability |-> <<"busy", "T1">>,
                                      performanceScore |-> p])
                      EXCEPT !.socketId = "s1"]>>
    /\ tasks = <<>>
    /\ InitRest

RegisterAgentPerf ==
    /\ steps < MaxSteps
    /\ \E a \in AgentIds :
          Install(onRegisterAgent(State, a, {}, "s1"), "register_agent")

CompletionPerf ==
    /\ steps < MaxSteps
    /\ perfUpdates < MaxPerfUpdates
    /\ \E a \in AgentIds, d \in PerfDurations :
          /\ MapHas(agents, a)
          /\ Install(updateAgentPerformance(State, a, d, TRUE), "completion")

FailurePerf ==
    /\ steps < MaxSteps
    /\ perfUpdates < MaxPerfUpdates
    /\ \E a \in AgentIds :
          /\ MapHas(agents, a)
          /\ Install(updateAgentPerformance(State, a, 0, FALSE), "failure")

NextPerf ==
    \/ RegisterAgentPerf
    \/ CompletionPerf
    \/ FailurePerf

SpecPerf == InitPerf /\ [][NextPerf]_vars

----------------------------------------------------------------------------
(* The ring on its own: events broadcast through the Event Hub one after   *)
(* the other, past the capacity of the ring.                               *)

MaxBroadcasts == 1003

BroadcastCoordinationEvent ==
    /\ Len(emitted) < MaxBroadcasts
    /\ Install(broadcastEvent(State, "demo_agent_connecting", Undefined,
                              Undefined),
               "broadcast")

NextRing == BroadcastCoordinationEvent

SpecRing == Init /\ [][NextRing]_vars

----------------------------------------------------------------------------
(* The passing of time: the clock advances a minute at a time while agents *)
(* register and report their status.  The server sets up no timer, so the  *)
(* passing of a minute changes nothing but the clock.                      *)

MaxTicks == 7

ClockTick == 60 * 1000
staleThreshold == 5 * 60 * 1000

Tick ==
    /\ now < MaxTicks * ClockTick
    /\ now' = now + ClockTick
    /\ handled' = "tick"
    /\ UNCHANGED <<agents, tasks, assignments, socketToAgent, perfUpdates,
                   eventHistory, emitted, replies, steps, required,
                   selected, conflicts, concVars>>

NextSweep ==
    \/ RegisterAgentMsg
    \/ AgentStatusMsg
    \/ Tick

SpecSweep == Init /\ [][NextSweep]_vars

----------------------------------------------------------------------------
(* Two messages handled together.  A handler is an async function: it runs *)
(* until an await, and what follows the await is a microtask queued        *)
(* behind the microtasks already waiting.  None of the awaited functions   *)
(* waits for anything outside the program, so the microtasks of a turn of  *)
(* the event loop run to the end before the next turn; handlers run        *)
(* together only when their messages are dispatched in the same turn.      *)
(* The clock stands still, so a task completed here has duration 0.        *)

MaxSeedTasks == 3
MaxSeedAgents == 2

EmptyState ==
    [agents |-> <<>>, tasks |-> <<>>,
     assignments |-> [x \in TaskIds |-> Undefined],
     socketToAgent |-> [x \in SocketIds |-> Undefined],
     perfUpdates |-> 0, eventHistory |-> <<>>, emitted |-> <<>>,
     replies |-> <<>>, now |-> 0]

(* the server after k create_task messages / n register_agent messages *)
RECURSIVE seedTasks(_, _)
seedTasks(s, k) ==
    IF k = 0
    THEN s
    ELSE onCreateTask(seedTasks(s, k - 1),
                      [requiredCapabilities |-> <<>>, dependencies |-> <<>>])

RECURSIVE seedAgents(_, _)
seedAgents(s, n) ==
    IF n = 0
    THEN s
    ELSE onRegisterAgent(seedAgents(s, n - 1), AgentIdTable[n], {}, "s1")

ConcSeeds ==
    {seedAgents(seedTasks(EmptyState, k), n) :
        k \in 0..MaxSeedTasks, n \in 0..MaxSeedAgents}
    \cup {seedTasks(seedAgents(EmptyState, n), k) :
            k \in 0..MaxSeedTasks, n \in 0..MaxSeedAgents}

ConcUpdates ==
    {[status |-> st] : st \in {"in_progress", "completed", "failed"}}
    \cup {[progress |-> 120]}

ConcMessages(tks) ==
    {[type |-> "task_progress", data |-> [taskId |-> t, update |-> u]] :
        t \in KnownTaskIds(tks), u \in ConcUpdates}
    \cup {[type |-> "create_task",
           data |-> [requiredCapabilities |-> <<>>, dependencies |-> d]] :
            d \in {<<>>} \cup {<<tks[k].id>> : k \in 1..Min(1, Len(tks))}}

(* the handler of a message before its first stretch.  seen tells whether  *)
(* the task of a task_progress message had been set to assigned when the   *)
(* message was dispatched, emittedAt is the seq of the handler's           *)
(* task_progress_updated event (0 before the emit)                         *)
NewProc(type, data, seen) ==
    [type |-> type, pc |-> "start", data |-> data, seen |-> seen,
     emittedAt |-> 0,
     previousStatus |-> Undefined, taskId |-> Undefined,
     caller |-> Undefined, uncompleted |-> FALSE, agentId |-> Undefined,
     pendingTasks |-> <<>>, i |-> 0]

At(s, p, pc) == [s |-> s, p |-> [p EXCEPT !.pc = pc]]

(* a call of assignOptimalAgent up to its first await *)
callAssign(s, p, taskId, caller) ==
    LET e == aoaEnter(s, taskId)
    IN At(s,
          [p EXCEPT !.taskId = taskId, !.caller = caller,
                    !.uncompleted = e.uncompleted, !.agentId = Undefined],
          IF e.result = "throw" THEN "aoa_threw" ELSE "aoa_afterDeps")

(* the loop of processPendingTasks at the i-th task of its snapshot *)
nextPending(s, p) ==
    IF p.i > Len(p.pendingTasks)
    THEN At(s, p, "utp_afterPending")
    ELSE callAssign(s, p, p.pendingTasks[p.i], "processPendingTasks")

(* updateTaskProgress from its emit on *)
utpEmit(s, p) ==
    LET s1 == broadcastEvent(s, "task_progress_updated", Undefined,
                             p.data.taskId)
        pending == SelectSeq(s1.tasks, LAMBDA t : t.status = "pending")
        p1 == [p EXCEPT !.emittedAt =
                           s1.eventHistory[Len(s1.eventHistory)].seq]
    IN IF /\ p.previousStatus # "completed"
          /\ MapGet(s1.tasks, p.data.taskId).status = "completed"
       THEN nextPending(s1, [p1 EXCEPT !.pendingTasks =
                                          [k \in 1..Len(pending) |->
                                              pending[k].id],
                                      !.i = 1])
       ELSE At(s1, p1, "h_afterUpdate")

(* the task_progress handler up to its first await *)
startTaskProgress(s, p) ==
    IF ~MapHas(s.tasks, p.data.taskId)
    THEN At(s, p, "h_caught")
    ELSE LET update == p.data.update
             newStatus == IF Has(update, "status") THEN update.status
                          ELSE Undefined
             s1 == utpApply(s, p.data.taskId, update)
             task == MapGet(s1.tasks, p.data.taskId)
             q == [p EXCEPT !.previousStatus =
                               MapGet(s.tasks, p.data.taskId).status]
         IN IF newStatus \in {"completed", "failed"}
            THEN IF Truthy(task.assignedAgent)
                 THEN At(updateAgentPerformance(s1, task.assignedAgent, 0,
                                                newStatus = "completed"),
                         q, "htc_afterPerf")
                 ELSE At(s1, q, "utp_afterHandle")
            ELSE utpEmit(s1, q)

(* the create_task handler up to its first await *)
startCreateTask(s, p) ==
    LET c == createTask(s, p.data)
    IN At(c.s, [p EXCEPT !.taskId = c.task.id], "h_afterCreate")

(* the stretch of the handler that follows the await it stands at *)
resume(s, p) ==
    CASE p.pc = "htc_afterPerf" ->
            LET u == updateAgentStatus(
                         s, MapGet(s.tasks, p.data.taskId).assignedAgent,
                         "online", Undefined)
            IN IF u.threw THEN At(s, p, "htc_threw")
               ELSE At(u.s, p, "htc_afterStatus")
      [] p.pc = "htc_threw" -> At(s, p, "utp_threw")
      [] p.pc = "utp_threw" -> At(s, p, "h_caught")
      [] p.pc = "h_caught" -> At(s, p, "done")
      [] p.pc = "htc_afterStatus" -> At(s, p, "utp_afterHandle")
      [] p.pc = "utp_afterHandle" -> utpEmit(s, p)
      [] p.pc = "utp_afterPending" -> At(s, p, "h_afterUpdate")
      [] p.pc = "h_afterUpdate" ->
            At(ioEmit(s, "task_progress", Undefined, p.data.taskId), p, "done")
      [] p.pc = "h_afterCreate" -> callAssign(s, p, p.taskId, "handler")
      [] p.pc = "aoa_threw" ->
            IF p.caller = "handler"
            THEN At(socketEmit(s, "task_error", Undefined, Undefined),
                    p, "done")
            ELSE nextPending(s, [p EXCEPT !.i = @ + 1])
      [] p.pc = "aoa_afterDeps" ->
            LET sel == aoaSelect(s, p.taskId, p.uncompleted)
            IN IF sel.result = "null"
               THEN At(s, p, "aoa_returned")
               ELSE At(sel.s, [p EXCEPT !.agentId = sel.agentId],
                       "aoa_afterStatus")
      [] p.pc = "aoa_afterStatus" ->
            At(aoaRecord(s, p.taskId, p.agentId), p, "aoa_returned")
      [] p.pc = "aoa_returned" ->
            IF p.caller = "handler"
            THEN At(socketEmit(
                        IF p.agentId # Undefined
                        THEN ioEmit(s, "task_assigned", p.agentId, p.taskId)
                        ELSE ioEmit(s, "task_pending", Undefined, p.taskId),
                        "task_created", Undefined, p.taskId),
                    p, "done")
            ELSE nextPending(s, [p EXCEPT !.i = @ + 1])

(* assignOptimalAgent has set the task to assigned: it writes            *)
(* assignedAgent together with the status and nothing clears the field    *)
wasAssigned(s, taskId) ==
    /\ MapHas(s.tasks, taskId)
    /\ Truthy(MapGet(s.tasks, taskId).assignedAgent)

(* the handler of one message run from its start to its end *)
onMessage(s, m) ==
    IF m.type = "create_task"
    THEN onCreateTask(s, m.data)
    ELSE onTaskProgress(s, m.data.taskId, m.data.update, 0)

InstallConc(s) ==
    /\ agents' = s.agents
    /\ tasks' = s.tasks
    /\ assignments' = s.assignments
    /\ socketToAgent' = s.socketToAgent
    /\ perfUpdates' = s.perfUpdates
    /\ eventHistory' = s.eventHistory
    /\ emitted' = s.emitted
    /\ replies' = s.replies
    /\ now' = s.now
    /\ UNCHANGED <<required, selected, conflicts, origin, timers>>

InitConc ==
    /\ \E seed \in ConcSeeds :
          /\ agents = seed.agents
          /\ tasks = seed.tasks
          /\ assignments = seed.assignments
          /\ socketToAgent = seed.socketToAgent
          /\ perfUpdates = seed.perfUpdates
          /\ eventHistory = seed.eventHistory
          /\ emitted = seed.emitted
          /\ replies = seed.replies
          /\ now = seed.now
          /\ origin = seed
    /\ steps = 0
    /\ handled = "none"
    /\ required = <<>>
    /\ selected = NotCalled
    /\ conflicts = NotDetected
    /\ procs = [h \in Slots |-> IdleProc]
    /\ queue = <<>>
    /\ inBatch = FALSE
    /\ timers = <<>>

(* a message is dispatched when no microtask waits, or in the turn of the  *)
(* event loop that dispatched the message before it.  The messages name    *)
(* tasks of the server before the two messages: the id of a task created   *)
(* by one of them is not known to the sender of the other                  *)
mayDispatch(q, batch) == q = <<>> \/ batch

DispatchMsg ==
    /\ mayDispatch(queue, inBatch)
    /\ \E h \in Slots, m \in ConcMessages(origin.tasks) :
          LET p == NewProc(m.type, m.data,
                           /\ m.type = "task_progress"
                           /\ wasAssigned(State, m.data.taskId))
              r == IF m.type = "create_task"
                   THEN startCreateTask(State, p)
                   ELSE startTaskProgress(State, p)
          IN /\ procs[h].type = "idle"
             /\ \A g \in Slots : g < h => procs[g].type # "idle"
             /\ m.type = "create_task" => Len(tasks) < MaxTasks
             /\ InstallConc(r.s)
             /\ procs' = [procs EXCEPT ![h] = r.p]
             /\ queue' = Append(queue, h)
             /\ inBatch' = TRUE
             /\ handled' = m.type
             /\ steps' = steps + 1

RunMicrotask ==
    /\ queue # <<>>
    /\ LET h == Head(queue)
           r == resume(State, procs[h])
       IN /\ InstallConc(r.s)
          /\ procs' = [procs EXCEPT ![h] = r.p]
          /\ queue' = IF r.p.pc = "done"
                      THEN Tail(queue)
                      ELSE Append(Tail(queue), h)
    /\ inBatch' = FALSE
    /\ UNCHANGED <<steps, handled>>

NextConc ==
    \/ DispatchMsg
    \/ RunMicrotask

SpecConc == InitConc /\ [][NextConc]_vars

----------------------------------------------------------------------------
(* Conflict detection on its own: detectConflicts called on task maps      *)
(* whose dependency lists name any tasks of the map in any order, the      *)
(* task itself and the same task twice included (a client chooses the ids  *)
(* and the dependencies of the tasks it creates), and on the tasks one     *)
(* agent holds or has held.                                                *)

MaxConflictTasks == 3

(* no dependency, one dependency, or two dependencies in either order,     *)
(* the same task twice included                                            *)
DependencyLists(n) ==
    LET ids == {TaskIdTable[i] : i \in 1..n}
    IN {<<>>} \cup {<<a>> : a \in ids} \cup {<<a, b>> : a \in ids, b \in ids}

(* status and assignedAgent of a task *)
ConflictHoldings ==
    {<<"pending", Undefined>>}
    \cup {<<st, "A1">> :
            st \in {"assigned", "in_progress", "completed", "failed"}}

ConflictRequirements == {<<>>, <<"python">>, <<"python", "sql">>}

ConflictCapabilities == {{}, {"python"}, {"python", "sql"}}

(* a task that names an agent the registry does not hold: a client may     *)
(* send assignedAgent with create_task                                     *)
MismatchHoldings ==
    ConflictHoldings \cup {<<"assigned", "A2">>}

ConflictTask(i, dependencies, holding) ==
    [id |-> TaskIdTable[i],
     description |-> "Untitled task",
     requiredCapabilities |-> <<>>,
     priority |-> "medium",
     status |-> holding[1],
     assignedAgent |-> holding[2],
     dependencies |-> dependencies,
     progress |-> IF holding[1] = "completed" THEN 100 ELSE 0,
     startedAt |-> FALSE]

InitConflicts ==
    /\ \E n \in 0..MaxConflictTasks :
          \/ \E deps \in [1..n -> DependencyLists(n)] :
                /\ tasks = [i \in 1..n |->
                               ConflictTask(i, deps[i],
                                            <<"pending", Undefined>>)]
                /\ agents = <<>>
          \/ \E holds \in [1..n -> ConflictHoldings],
                av \in {<<"online", Undefined>>, <<"busy", "T1">>} :
                /\ tasks = [i \in 1..n |-> ConflictTask(i, <<>>, holds[i])]
                /\ agents = <<SelectAgent(1, [capabilities |-> {},
                                               availability |-> av,
                                               performanceScore |->
                                                   PerfScale])>>
          \/ \E holds \in [1..n -> MismatchHoldings],
                reqs \in [1..n -> ConflictRequirements],
                caps \in ConflictCapabilities :
                /\ tasks = [i \in 1..n |->
                               [ConflictTask(i, <<>>, holds[i])
                                EXCEPT !.requiredCapabilities = reqs[i]]]
                /\ agents = <<SelectAgent(1, [capabilities |-> caps,
                                               availability |->
                                                   <<"busy", "T1">>,
                                               performanceScore |->
                                                   PerfScale])>>
    /\ InitRest

(* one call in a behaviour: the call leaves the maps as they are, so a     *)
(* second call returns the same list                                       *)
DetectConflicts ==
    /\ conflicts = NotDetected
    /\ conflicts' = detectConflicts(State)
    /\ eventHistory' = emitConflictsDetected(State, conflicts').eventHistory
    /\ emitted' = emitConflictsDetected(State, conflicts').emitted
    /\ handled' = "detect_conflicts"
    /\ steps' = steps + 1
    /\ UNCHANGED <<agents, tasks, assignments, socketToAgent, perfUpdates,
                   replies, now, required, selected, concVars>>

NextConflicts == DetectConflicts

SpecConflicts == InitConflicts /\ [][NextConflicts]_vars

----------------------------------------------------------------------------
(* Conflict resolution: resolveDetectedConflicts detects, announces the    *)
(* start of every resolution at once and leaves the announcement of its    *)
(* end to a timer.  The awaits of the loop wait for promises that are      *)
(* already settled, so the loop ends before any timer runs.                *)

MaxResolveTasks == 2

(* the second argument of setTimeout, in milliseconds *)
resolutionDelay(conflictType) ==
    CASE conflictType = "resource_contention" -> 2000
      [] conflictType = "dependency_deadlock" -> 3000
      [] conflictType = "capability_mismatch" -> 1500

(* broadcastEvent of conflict_resolution_started or conflict_resolved: the *)
(* data names the type of the conflict and no agent or task                *)
broadcastResolution(s, type, conflictType) ==
    LET pushed == Append(s.eventHistory,
                         [type |-> type, agentId |-> Undefined,
                          taskId |-> Undefined, conflictType |-> conflictType,
                          seq |-> Len(s.emitted) + 1])
    IN [s EXCEPT !.eventHistory = trimHistory(pushed),
                 !.emitted = Append(@, [type |-> type, agentId |-> Undefined,
                                        taskId |-> Undefined,
                                        conflictType |-> conflictType])]

(* the callback is scheduled twice *)
setTimeout_twice(scheduled, conflictType, due) ==
    scheduled \o <<[conflictType |-> conflictType, due |-> due],
                   [conflictType |-> conflictType, due |-> due]>>

setTimeout(scheduled, conflictType, due) ==
    Append(scheduled, [conflictType |-> conflictType, due |-> due])

(* the for loop of resolveDetectedConflicts: the events it broadcasts *)
RECURSIVE startResolutions(_, _)
startResolutions(s, found) ==
    IF found = <<>>
    THEN s
    ELSE startResolutions(
             broadcastResolution(s, "conflict_resolution_started",
                                 Head(found).type),
             Tail(found))

(* the for loop of resolveDetectedConflicts: the timers it sets *)
RECURSIVE scheduleResolutions(_, _, _)
scheduleResolutions(scheduled, found, at) ==
    IF found = <<>>
    THEN scheduled
    ELSE scheduleResolutions(
             setTimeout(scheduled, Head(found).type,
                        at + resolutionDelay(Head(found).type)),
             Tail(found), at)

(* the timer that runs next: the earliest due, the first set among equals *)
nextTimer(scheduled) ==
    CHOOSE k \in 1..Len(scheduled) :
        \A j \in 1..Len(scheduled) :
            \/ scheduled[k].due < scheduled[j].due
            \/ scheduled[k].due = scheduled[j].due /\ k <= j

removeAt(seq, k) ==
    SubSeq(seq, 1, k - 1) \o SubSeq(seq, k + 1, Len(seq))

ResolveTasks(i, n) ==
    LET next == TaskIdTable[(i % n) + 1]
        plain == ConflictTask(i, <<>>, <<"pending", Undefined>>)
    IN {plain,
        [plain EXCEPT !.dependencies = <<next>>],
        [plain EXCEPT !.status = "assigned", !.assignedAgent = "A1",
                      !.requiredCapabilities = <<"python", "sql">>],
        [plain EXCEPT !.status = "assigned", !.assignedAgent = "A1",
                      !.requiredCapabilities = <<"python", "sql">>,
                      !.dependencies = <<next>>],
        [plain EXCEPT !.status = "in_progress", !.assignedAgent = "A1"],
        [plain EXCEPT !.status = "completed", !.assignedAgent = "A1"]}

InitResolve ==
    /\ \E n \in 0..MaxResolveTasks :
          \E chosen \in [1..n -> UNION {ResolveTasks(i, n) : i \in 1..n}],
             caps \in {{"python"}, {"python", "sql"}} :
             /\ \A i \in 1..n : chosen[i] \in ResolveTasks(i, n)
             /\ tasks = chosen
             /\ agents = <<SelectAgent(1, [capabilities |-> caps,
                                            availability |-> <<"busy", "T1">>,
                                            performanceScore |-> PerfScale])>>
    /\ InitRest

ResolveDetectedConflicts ==
    /\ conflicts = NotDetected
    /\ conflicts' = detectConflicts(State)
    /\ LET after == startResolutions(
                        emitConflictsDetected(State, conflicts'), conflicts')
       IN /\ eventHistory' = after.eventHistory
          /\ emitted' = after.emitted
    /\ timers' = scheduleResolutions(timers, conflicts', now)
    /\ handled' = "resolve_conflicts"
    /\ steps' = steps + 1
    /\ UNCHANGED <<agents, tasks, assignments, socketToAgent, perfUpdates,
                   replies, now, required, selected, procs, queue, inBatch,
                   origin>>

(* the callback of the timer that is due first *)
FireTimer ==
    /\ timers # <<>>
    /\ LET k == nextTimer(timers)
           after == broadcastResolution(State, "conflict_resolved",
                                        timers[k].conflictType)
       IN /\ now' = Max(now, timers[k].due)
          /\ eventHistory' = after.eventHistory
          /\ emitted' = after.emitted
          /\ timers' = removeAt(timers, k)
    /\ handled' = "timer"
    /\ steps' = steps + 1
    /\ UNCHANGED <<agents, tasks, assignments, socketToAgent, perfUpdates,
                   replies, required, selected, conflicts, procs, queue,
                   inBatch, origin>>

NextResolve ==
    \/ ResolveDetectedConflicts
    \/ FireTimer

(* a timer that is due runs: the event loop has nothing else to do *)
SpecResolve ==
    InitResolve /\ [][NextResolve]_vars /\ WF_vars(FireTimer)

----------------------------------------------------------------------------
(* Waiting tasks: the server after create_task messages that found no      *)
(* agent, each with a priority and with no dependency or the first task as *)
(* its dependency, followed by register_agent messages; then one           *)
(* task_progress message.                                                  *)

PendingPriorities == {"low", "critical"}

RECURSIVE seedPending(_, _, _, _)
seedPending(s, priorities, dependencies, k) ==
    IF k = 0
    THEN s
    ELSE onCreateTask(seedPending(s, priorities, dependencies, k - 1),
                      [requiredCapabilities |-> <<>>,
                       priority |-> priorities[k],
                       dependencies |-> dependencies[k]])

InitPending ==
    /\ \E k \in 0..MaxSeedTasks, n \in 0..MaxSeedAgents :
          \E priorities \in [1..k -> PendingPriorities],
             dependencies \in [1..k -> {<<>>, <<TaskIdTable[1]>>}] :
             LET seed == seedAgents(seedPending(EmptyState, priorities,
                                                dependencies, k), n)
             IN /\ agents = seed.agents
                /\ tasks = seed.tasks
                /\ assignments = seed.assignments
                /\ socketToAgent = seed.socketToAgent
                /\ perfUpdates = seed.perfUpdates
                /\ eventHistory = seed.eventHistory
                /\ emitted = seed.emitted
                /\ replies = seed.replies
                /\ now = seed.now
    /\ steps = 0
    /\ handled = "none"
    /\ required = <<>>
    /\ selected = NotCalled
    /\ conflicts = NotDetected
    /\ procs = [h \in Slots |-> IdleProc]
    /\ queue = <<>>
    /\ inBatch = FALSE
    /\ origin = <<>>
    /\ timers = <<>>

ProgressPending ==
    /\ handled = "none"
    /\ \E t \in KnownTaskIds(tasks), u \in UpdateInputs, d \in Durations :
          LET s == onTaskProgress(State, t, u, d)
          IN /\ s.perfUpdates <= MaxPerfUpdates
             /\ Install(s, "task_progress")

NextPending == ProgressPending

SpecPending == InitPending /\ [][NextPending]_vars

----------------------------------------------------------------------------
(* Re-registration of a working agent: the server after register_agent     *)
(* and create_task messages, then a task that is started, an agent that    *)
(* registers again, a further task, and a detection of conflicts, each of  *)
(* the four optional.                                                      *)

InitContention ==
    /\ \E n \in 1..MaxSeedAgents, k \in 0..(MaxSeedTasks - 1) :
          LET seed == seedTasks(seedAgents(EmptyState, n), k)
          IN /\ agents = seed.agents
             /\ tasks = seed.tasks
             /\ assignments = seed.assignments
             /\ socketToAgent = seed.socketToAgent
             /\ perfUpdates = seed.perfUpdates
             /\ eventHistory = seed.eventHistory
             /\ emitted = seed.emitted
             /\ replies = seed.replies
             /\ now = seed.now
    /\ steps = 0
    /\ handled = "none"
    /\ required = <<>>
    /\ selected = NotCalled
    /\ conflicts = NotDetected
    /\ procs = [h \in Slots |-> IdleProc]
    /\ queue = <<>>
    /\ inBatch = FALSE
    /\ origin = <<>>
    /\ timers = <<>>

StartTask ==
    /\ handled = "none"
    /\ \E i \in 1..Len(tasks) :
          Install(onTaskProgress(State, tasks[i].id,
                                 [status |-> "in_progress"], 0),
                  "task_progress")

RegisterAgain ==
    /\ handled \in {"none", "task_progress"}
    /\ \E i \in 1..Len(agents) :
          Install(onRegisterAgent(State, agents[i].id, {}, "s1"),
                  "register_agent")

CreateFurtherTask ==
    /\ handled \in {"none", "task_progress", "register_agent"}
    /\ Install(onCreateTask(State, [requiredCapabilities |-> <<>>,
                                    dependencies |-> <<>>]),
               "create_task")

NextContention ==
    \/ StartTask
    \/ RegisterAgain
    \/ CreateFurtherTask
    \/ DetectConflicts

SpecContention == InitContention /\ [][NextContention]_vars

----------------------------------------------------------------------------
(* Vocabulary of the properties *)

ActiveStatuses == {"assigned", "in_progress"}
TerminalStatuses == {"completed", "failed"}

(* positions of the tasks in assigned or in_progress that name agent a *)
ActiveTasksOf(tks, a) ==
    {i \in 1..Len(tks) :
        tks[i].assignedAgent = a /\ tks[i].status \in ActiveStatuses}

(* every dependency of the task names an existing, completed task *)
DependenciesCompleted(tks, task) ==
    \A k \in 1..Len(task.dependencies) :
        /\ MapHas(tks, task.dependencies[k])
        /\ MapGet(tks, task.dependencies[k]).status = "completed"

(* the transitions update_progress may make, as the specification lists them *)
PermittedTransition(from, to) ==
    \/ from = "assigned" /\ to = "in_progress"
    \/ from \in ActiveStatuses /\ to \in TerminalStatuses

(* the step from the current state to the next is the handling of this message *)
IsTaskProgressStep(t, u, d) ==
    /\ handled' = "task_progress"
    /\ State' = onTaskProgress(State, t, u, d)

IsRegisterAgentStep(a, c, sock) ==
    /\ handled' = "register_agent"
    /\ State' = onRegisterAgent(State, a, c, sock)

IsCreateTaskStep(data) ==
    /\ handled' = "create_task"
    /\ State' = onCreateTask(State, data)

IsAgentStatusStep(data) ==
    /\ handled' = "agent_status"
    /\ State' = onAgentStatus(State, data)

IsChannelCloseStep(sock) ==
    /\ handled' = "disconnect"
    /\ State' = onDisconnect(State, sock)

(* what the events of the ring say, in the order of the ring *)
Payloads(events) ==
    [i \in 1..Len(events) |->
        Payload(events[i].type, events[i].agentId, events[i].taskId)]

(* the last n elements of a sequence *)
Last(seq, n) == SubSeq(seq, Len(seq) - Min(n, Len(seq)) + 1, Len(seq))

----------------------------------------------------------------------------
(* C1: after any sequence of register_agent, create_task, task_progress    *)
(* and agent_status messages, every agent is the assigned_agent of at most *)
(* one task whose status is assigned or in_progress.                       *)
C1_SingleAssignment ==
    \A i \in 1..Len(agents) :
        Cardinality(ActiveTasksOf(tasks, agents[i].id)) <= 1

(* C2: after every message, an agent has status busy if and only if some   *)
(* task in assigned or in_progress names it as its assigned_agent.         *)
C2_BusyIffActiveTask ==
    \A i \in 1..Len(agents) :
        (agents[i].status = "busy") <=> (ActiveTasksOf(tasks, agents[i].id) # {})

(* C3: after every message an agent's current_task is non-empty exactly    *)
(* when its status is busy; in particular, after update_progress takes a   *)
(* task held by a registered agent to completed or failed, that agent no   *)
(* longer carries the task: it is online with an empty current_task, or    *)
(* busy with another task it was given in the same update.  The formula    *)
(* is the claim at the end of such an update.                              *)
C3_CurrentTaskIffBusy ==
    [][\A t \in TaskIds, u \in UpdateInputs, d \in Durations :
          (/\ IsTaskProgressStep(t, u, d)
           /\ Has(u, "status") /\ u.status \in TerminalStatuses
           /\ MapHas(tasks, t)
           /\ MapHas(agents, MapGet(tasks, t).assignedAgent))
          => LET agent == MapGet(agents', MapGet(tasks, t).assignedAgent)
             IN /\ Truthy(agent.currentTask) <=> (agent.status = "busy")
                /\ agent.currentTask # t]_vars

(* C4: a task leaves pending, by any operation, only at a moment when      *)
(* every id in its dependencies names an existing task whose status is     *)
(* completed.                                                              *)
C4_DependencyBarrier ==
    [][\A t \in TaskIds :
          (/\ MapHas(tasks, t) /\ MapGet(tasks, t).status = "pending"
           /\ MapHas(tasks', t) /\ MapGet(tasks', t).status # "pending")
          => DependenciesCompleted(tasks', MapGet(tasks', t))]_vars

(* C5: once a task's status is completed or failed, no later message       *)
(* changes its status.  (A create_task stores a new task, also when it     *)
(* reuses an id; the claim is about the messages sent for the task.)       *)
C5_TerminalAbsorbing ==
    [][\A t \in TaskIds :
          (/\ handled' # "create_task"
           /\ MapHas(tasks, t) /\ MapGet(tasks, t).status \in TerminalStatuses)
          => (MapHas(tasks', t)
              /\ MapGet(tasks', t).status = MapGet(tasks, t).status)]_vars

(* C6: update_progress changes a task's status only along                  *)
(* assigned -> in_progress and assigned / in_progress -> completed or      *)
(* failed; a request for any other transition is refused and leaves the    *)
(* task's status and every agent unchanged.                                *)
C6_OnlyPermittedTransitions ==
    [][\A t \in TaskIds, u \in UpdateInputs, d \in Durations :
          (/\ IsTaskProgressStep(t, u, d)
           /\ MapHas(tasks, t)
           /\ Has(u, "status")
           /\ u.status # MapGet(tasks, t).status
           /\ ~PermittedTransition(MapGet(tasks, t).status, u.status))
          => (/\ MapGet(tasks', t).status = MapGet(tasks, t).status
              /\ agents' = agents)]_vars

(* C7: when update_progress completes task T1 held by agent A1, the only   *)
(* registered agent, and the only pending task T2 has T1 as its only       *)
(* dependency, then at the end of that update T2 is assigned to A1.        *)
C7_CompletionReleasesDependent ==
    [][\A t1 \in TaskIds, t2 \in TaskIds, u \in UpdateInputs, d \in Durations :
          (/\ IsTaskProgressStep(t1, u, d)
           /\ Has(u, "status") /\ u.status = "completed"
           /\ Len(agents) = 1
           /\ agents[1].status = "busy" /\ agents[1].currentTask = t1
           /\ MapHas(tasks, t1)
           /\ MapGet(tasks, t1).status \in ActiveStatuses
           /\ MapGet(tasks, t1).assignedAgent = agents[1].id
           /\ MapHas(tasks, t2)
           /\ MapGet(tasks, t2).status = "pending"
           /\ MapGet(tasks, t2).dependencies = <<t1>>
           /\ \A i \in 1..Len(tasks) :
                 tasks[i].status = "pending" => tasks[i].id = t2)
          => (/\ MapGet(tasks', t2).status = "assigned"
              /\ MapGet(tasks', t2).assignedAgent = agents[1].id
              /\ agents'[1].status = "busy"
              /\ agents'[1].currentTask = t2)]_vars

(* C8: when the first agent registers while a pending task with no unmet   *)
(* dependency exists, the first such task is assigned to that agent as     *)
(* part of the registration; a pending task with an unmet dependency       *)
(* stays pending.                                                          *)
C8_RegistrationAssignsPending ==
    [][\A a \in AgentIds, c \in CapabilityInputs, sock \in SocketIds :
          (/\ IsRegisterAgentStep(a, c, sock)
           /\ Len(agents) = 0)
          => \A i \in 1..Len(tasks) :
                /\ (/\ tasks[i].status = "pending"
                    /\ DependenciesCompleted(tasks, tasks[i])
                    /\ \A j \in 1..(i - 1) :
                          ~(/\ tasks[j].status = "pending"
                            /\ DependenciesCompleted(tasks, tasks[j])))
                   => (/\ tasks'[i].status = "assigned"
                       /\ tasks'[i].assignedAgent = a)
                /\ (/\ tasks[i].status = "pending"
                    /\ ~DependenciesCompleted(tasks, tasks[i]))
                   => tasks'[i].status = "pending"]_vars

(* C9: under any sequence of update_progress calls the progress of every   *)
(* task never decreases.                                                   *)
C9_ProgressMonotone ==
    [][\A t \in TaskIds, u \in UpdateInputs, d \in Durations :
          IsTaskProgressStep(t, u, d)
          => \A i \in 1..Len(tasks) :
                tasks'[i].progress >= tasks[i].progress]_vars

(* C10: in every reachable state every task whose status is completed has  *)
(* progress 100, also after further progress updates for a completed task. *)
C10_CompletedHasFullProgress ==
    \A i \in 1..Len(tasks) :
        tasks[i].status = "completed" => tasks[i].progress = 100

(* the agents select may return: online with an empty current_task *)
Candidates(ags) ==
    {i \in 1..Len(ags) :
        ags[i].status = "online" /\ ags[i].currentTask \in {Undefined, EmptyString}}

(* the number of entries of the requirement the agent has *)
Covered(agent, req) ==
    Cardinality({k \in 1..Len(req) : req[k] \in agent.capabilities})

(* (0.6 coverage + 0.3 performance_score + 0.1 workload) * 10 * PerfScale   *)
(* * Max(1, Len(req)) for an online agent: coverage is 1 for an empty      *)
(* requirement and workload is 1                                           *)
SelectionTotal(agent, req) ==
    IF Len(req) = 0
    THEN 6 * PerfScale + 3 * agent.performanceScore + PerfScale
    ELSE 6 * PerfScale * Covered(agent, req)
         + (3 * agent.performanceScore + PerfScale) * Len(req)

(* C11: select returns an agent whose total score 0.6 coverage + 0.3       *)
(* performance_score + 0.1 workload is maximal among the agents that are   *)
(* online with an empty current_task, and among the agents of maximal      *)
(* score the one registered first.                                         *)
C11_SelectsFirstMaximal ==
    (selected # NotCalled /\ selected # Undefined)
    => \E k \in 1..Len(agents) :
          /\ agents[k].id = selected
          /\ \A i \in Candidates(agents) :
                /\ SelectionTotal(agents[i], required)
                      <= SelectionTotal(agents[k], required)
                /\ i < k => SelectionTotal(agents[i], required)
                               < SelectionTotal(agents[k], required)

(* select passed over the agent registered first, which has the higher     *)
(* performance score, for a later one whose coverage gives it the higher   *)
(* total                                                                   *)
C11_Witness ==
    /\ Len(agents) = 2
    /\ Candidates(agents) = {1, 2}
    /\ selected = agents[2].id
    /\ SelectionTotal(agents[1], required)
          < SelectionTotal(agents[2], required)
    /\ agents[1].performanceScore > agents[2].performanceScore

(* C12: select returns none exactly when no agent is online with an empty  *)
(* current_task; whenever there is such an agent it returns one, also when *)
(* no agent has any of the required capabilities; it never returns a busy  *)
(* or offline agent.                                                       *)
C12_NoneIffNoCandidate ==
    selected # NotCalled
    => /\ (selected = Undefined) <=> (Candidates(agents) = {})
       /\ selected # Undefined
          => \E k \in Candidates(agents) : agents[k].id = selected

(* select returned an agent although no agent has a required capability,   *)
(* with a busy agent in the registry that has them all                     *)
C12_Witness ==
    /\ selected \notin {NotCalled, Undefined}
    /\ Len(required) > 0
    /\ \A i \in Candidates(agents) : Covered(agents[i], required) = 0
    /\ \E i \in 1..Len(agents) :
          /\ agents[i].status = "busy"
          /\ Covered(agents[i], required) = Len(required)

(* the maps of the server, which the serial orders are compared on *)
Core(s) ==
    [agents |-> s.agents, tasks |-> s.tasks, assignments |-> s.assignments,
     socketToAgent |-> s.socketToAgent]

MessageOf(h) == [type |-> procs[h].type, data |-> procs[h].data]

AllDone == \A h \in Slots : procs[h].type # "idle" /\ procs[h].pc = "done"

(* C13: when two messages are handled together, their handlers taking     *)
(* turns at every await, the agents, tasks and assignments at the end are  *)
(* those some serial order of the two messages produces; in particular a   *)
(* pending task is not assigned to two different agents and no agent is    *)
(* left busy with a task whose assignedAgent is another agent.             *)
C13_SerialOutcome ==
    AllDone
    => /\ Core(State) \in
             {Core(onMessage(onMessage(origin, MessageOf(1)), MessageOf(2))),
              Core(onMessage(onMessage(origin, MessageOf(2)), MessageOf(1)))}
       /\ \A i \in 1..Len(agents) :
             (agents[i].status = "busy" /\ MapHas(tasks, agents[i].currentTask))
             => MapGet(tasks, agents[i].currentTask).assignedAgent
                   = agents[i].id

(* the handlers that have applied an update to a task and put its        *)
(* task_progress_updated event into the ring                               *)
Emitters ==
    {h \in Slots : procs[h].type = "task_progress" /\ procs[h].emittedAt > 0}

(* C14: events about one task are in the ring in the order their          *)
(* mutations were applied, also when handlers take turns at their awaits:  *)
(* of two updates of one task the event of the update applied first comes  *)
(* first, and the event of an update applied after the task was set to     *)
(* assigned has the task_assigned event of the task before it.  The        *)
(* handler in slot 1 applies its update before the handler in slot 2.      *)
C14_EventsInMutationOrder ==
    /\ \A g, h \in Emitters :
          (g < h /\ procs[g].data.taskId = procs[h].data.taskId)
          => procs[g].emittedAt < procs[h].emittedAt
    /\ \A h \in Emitters :
          procs[h].seen
          => \E j \in 1..Len(eventHistory) :
                /\ eventHistory[j].type = "task_assigned"
                /\ eventHistory[j].taskId = procs[h].data.taskId
                /\ eventHistory[j].seq < procs[h].emittedAt

(* C15: every event delivered to the observers, agent_joined,             *)
(* task_pending, task_progress and the handlers' task_assigned included,   *)
(* is also appended to the ring: replaying recent(n) gives the events a    *)
(* continuously connected observer received, in the same order.            *)
C15_ReplayEqualsDelivered ==
    Len(emitted) <= RingCapacity
    => \A n \in 1..Len(emitted) :
          Payloads(getRecentEvents(State, n)) = Last(emitted, n)

(* C16: after any number of broadcasts through the Event Hub the ring      *)
(* holds at most 1,000 events, and they are exactly the most recent events *)
(* broadcast, in the order they were broadcast.                            *)
C16_RingHoldsMostRecent ==
    /\ Len(eventHistory) = Min(Len(emitted), RingCapacity)
    /\ \A i \in 1..Len(eventHistory) :
          eventHistory[i].seq = Len(emitted) - Len(eventHistory) + i
    /\ Payloads(eventHistory) = Last(emitted, RingCapacity)

(* more events than the ring holds have been broadcast *)
C16_Witness ==
    /\ Len(emitted) > RingCapacity + 1
    /\ Len(eventHistory) = RingCapacity
    /\ eventHistory[1].seq = Len(emitted) - RingCapacity + 1

(* C17: when the channel of a registered agent closes, the agent's status  *)
(* becomes offline and its channel reference is dropped, while every task  *)
(* keeps its status and its assigned_agent.                                *)
C17_ChannelCloseMarksOffline ==
    [][\A sock \in SocketIds :
          (/\ IsChannelCloseStep(sock)
           /\ socketToAgent[sock] # Undefined)
          => (/\ MapGet(agents', socketToAgent[sock]).status = "offline"
              /\ MapGet(agents', socketToAgent[sock]).socketId = Undefined
              /\ socketToAgent'[sock] = Undefined
              /\ \A i \in 1..Len(tasks) :
                    /\ tasks'[i].status = tasks[i].status
                    /\ tasks'[i].assignedAgent = tasks[i].assignedAgent)]_vars

(* C18: the liveness sweep runs every minute, so that a minute after an    *)
(* agent that is not offline was found with a last_seen more than five     *)
(* minutes old, it has been marked offline; the sweep changes no agent     *)
(* seen within the last five minutes and no task.                          *)
C18_StaleAgentsSweptOffline ==
    [][now' > now
       => /\ Len(agents') = Len(agents)
          /\ \A i \in 1..Len(agents) :
                IF /\ agents[i].status # "offline"
                   /\ now - agents[i].lastSeen > staleThreshold
                THEN agents'[i].status = "offline"
                ELSE agents'[i] = agents[i]
          /\ tasks' = tasks]_vars

(* C19: registering an id that exists keeps the agent's performance_score, *)
(* tasks_completed and average_task_time, sets its status to online and    *)
(* clears its current_task; registering the same data a second time        *)
(* leaves the registry as it was after the first time.                     *)
C19_ReRegistrationKeepsCounters ==
    [][\A a \in AgentIds, c \in CapabilityInputs, sock \in SocketIds :
          IsRegisterAgentStep(a, c, sock)
          => /\ MapGet(agents', a).status = "online"
             /\ MapGet(agents', a).currentTask = Undefined
             /\ MapHas(agents, a)
                => /\ MapGet(agents', a).performanceScore
                         = MapGet(agents, a).performanceScore
                   /\ MapGet(agents', a).tasksCompleted
                         = MapGet(agents, a).tasksCompleted
                   /\ MapGet(agents', a).averageTaskTime
                         = MapGet(agents, a).averageTaskTime
             /\ registerAgent(State', a, c, sock).agents = agents'
             /\ registerAgent(State', a, c, sock).socketToAgent
                   = socketToAgent']_vars

(* an agent that completed a task was registered again: it is online       *)
(* without a current task and has its counters                             *)
C19_Witness ==
    /\ handled = "register_agent"
    /\ \E i \in 1..Len(agents) :
          /\ agents[i].tasksCompleted = 1
          /\ agents[i].performanceScore > PerfScale
          /\ agents[i].status = "online"
          /\ agents[i].currentTask = Undefined

(* a step of SpecPerf that records a success of the given duration *)
IsCompletionStep(a, d) ==
    /\ handled' = "completion"
    /\ MapHas(agents, a)
    /\ State' = updateAgentPerformance(State, a, d, TRUE)

(* C21: on a success, average_task_time becomes the sample when it is the  *)
(* agent's first success and otherwise the arithmetic mean of the previous *)
(* average and the sample, for every duration >= 0: a success following a  *)
(* first success of duration 0 yields half the new sample.                 *)
C21_AverageIsMeanAfterFirstSuccess ==
    [][\A a \in AgentIds, d \in PerfDurations :
          IsCompletionStep(a, d)
          => IF MapGet(agents, a).tasksCompleted = 0
             THEN MapGet(agents', a).averageTaskTime = d * AvgScale
             ELSE 2 * MapGet(agents', a).averageTaskTime
                     = MapGet(agents, a).averageTaskTime + d * AvgScale]_vars

(* C20: an agent's performance_score starts at 1.0 and stays within        *)
(* [0.1, 2.0] after any sequence of completions and failures, for every    *)
(* task duration, zero included.                                           *)
C20_ScoreWithinLimits ==
    [][\A i \in 1..Len(agents') :
          /\ agents'[i].performanceScore >= PerfScale \div 10
          /\ agents'[i].performanceScore <= 2 * PerfScale
          /\ ~MapHas(agents, agents'[i].id)
             => agents'[i].performanceScore = PerfScale]_vars

(* a failure left the score at the lower limit 0.1, and a completion of    *)
(* duration zero then took it to 0.29                                      *)
C20_Witness ==
    /\ perfUpdates = 2
    /\ handled = "completion"
    /\ \E i \in 1..Len(agents) :
          /\ agents[i].tasksCompleted = 1
          /\ agents[i].averageTaskTime = 0
          /\ 100 * agents[i].performanceScore = 29 * PerfScale

(* C22: immediately after create_task the new task has status pending,     *)
(* progress 0 and no assigned agent, whatever fields the client's message  *)
(* carries.                                                                *)
C22_CreatedTaskStartsPending ==
    [][\A data \in CreateInputs(tasks) :
          IsCreateTaskStep(data)
          => LET task == createTask(State, data).task
             IN /\ task.status = "pending"
                /\ task.progress = 0
                /\ task.assignedAgent = Undefined]_vars

(* C23: a create_task message whose description is missing or empty        *)
(* creates no task, changes no agent, and is answered with a task_error    *)
(* event on the same channel.                                              *)
C23_MissingDescriptionRejected ==
    [][\A data \in CreateInputs(tasks) :
          (/\ IsCreateTaskStep(data)
           /\ ~(Has(data, "description") /\ Truthy(data.description)))
          => /\ tasks' = tasks
             /\ agents' = agents
             /\ Len(replies') = Len(replies) + 1
             /\ replies'[Len(replies')].type = "task_error"]_vars

(* C24: create_task adds exactly one task under an id not used before and  *)
(* leaves every existing task unchanged, whatever fields, id included, the *)
(* client supplies: the set of tasks never shrinks and no existing task is *)
(* replaced.                                                               *)
C24_CreateAddsOneFreshTask ==
    [][\A data \in CreateInputs(tasks) :
          IsCreateTaskStep(data)
          => /\ Len(tasks') = Len(tasks) + 1
             /\ ~MapHas(tasks, tasks'[Len(tasks')].id)
             /\ \A i \in 1..Len(tasks) : tasks'[i] = tasks[i]]_vars

(* the types of the events about a task that a step sent to every client *)
SentAbout(taskId) ==
    {emitted'[k].type : k \in {j \in (Len(emitted) + 1)..Len(emitted') :
                                  emitted'[j].taskId = taskId}}

(* C25: when a create_task message finds no assignable agent (no agent is  *)
(* online and idle, or a dependency is unmet), the task remains pending,   *)
(* no agent changes, the creator still receives task_created, and          *)
(* task_pending and not task_assigned is broadcast for the task; when an   *)
(* agent is found, task_assigned and not task_pending is broadcast.        *)
C25_PendingOrAssignedAnnounced ==
    [][\A data \in CreateInputs(tasks) :
          IsCreateTaskStep(data)
          => LET c == createTask(State, data)
                 id == c.task.id
             IN IF \/ Candidates(agents) = {}
                   \/ ~DependenciesCompleted(c.s.tasks, c.task)
                THEN /\ MapGet(tasks', id).status = "pending"
                     /\ agents' = agents
                     /\ replies' = Append(replies,
                                          Payload("task_created", Undefined,
                                                  id))
                     /\ "task_pending" \in SentAbout(id)
                     /\ "task_assigned" \notin SentAbout(id)
                ELSE /\ "task_assigned" \in SentAbout(id)
                     /\ "task_pending" \notin SentAbout(id)]_vars

(* the step left the maps as they were and sent the sender one event *)
RejectedWithError ==
    /\ agents' = agents
    /\ tasks' = tasks
    /\ assignments' = assignments
    /\ Len(replies') = Len(replies) + 1

(* C26: a task_progress message naming a task id that does not exist, and  *)
(* an agent_status message naming an agent id that does not exist, each    *)
(* change no agent, task or assignment and are answered with an error      *)
(* event on the sending channel.                                           *)
C26_UnknownIdAnsweredWithError ==
    [][/\ \A t \in TaskIds, u \in UpdateInputs, d \in Durations :
             (IsTaskProgressStep(t, u, d) /\ ~MapHas(tasks, t))
             => RejectedWithError
       /\ \A data \in AgentStatusInputs :
             (IsAgentStatusStep(data) /\ ~MapHas(agents, data.agentId))
             => RejectedWithError]_vars

(* C27: after every message an assignment record exists for a task exactly *)
(* when the task's status is assigned or in_progress, and its agent_id is  *)
(* the task's assigned_agent.  (The records are a map keyed by task id, so *)
(* a task never has two.)                                                  *)
C27_RecordIffActive ==
    \A t \in TaskIds :
        /\ (assignments[t] # Undefined)
              <=> (MapHas(tasks, t) /\ MapGet(tasks, t).status \in ActiveStatuses)
        /\ assignments[t] # Undefined
              => assignments[t] = MapGet(tasks, t).assignedAgent

(* the conflicts of a type in the last result of detectConflicts *)
Reported(type) ==
    IF conflicts = NotDetected
    THEN {}
    ELSE {k \in 1..Len(conflicts) : conflicts[k].type = type}

(* C28: conflict detection reports resource_contention for an agent        *)
(* exactly when the agent is busy and is the assigned_agent of more than   *)
(* one task in a non-terminal state; its completed and failed tasks do not *)
(* count.                                                                  *)
C28_ContentionCountsNonTerminal ==
    conflicts # NotDetected
    => \A a \in AgentIds :
          (\E k \in Reported("resource_contention") :
              conflicts[k].involvedAgents = <<a>>)
          <=> /\ MapHas(agents, a)
              /\ MapGet(agents, a).status = "busy"
              /\ Cardinality({i \in 1..Len(tasks) :
                                 /\ tasks[i].assignedAgent = a
                                 /\ tasks[i].status \notin TerminalStatuses})
                    > 1

(* task a depends on task b *)
DependsOn(tks, a, b) ==
    /\ MapHas(tks, a)
    /\ \E k \in 1..Len(MapGet(tks, a).dependencies) :
          MapGet(tks, a).dependencies[k] = b

(* the ids reached from the ids of S along at most n more dependencies *)
RECURSIVE ReachedFrom(_, _, _)
ReachedFrom(tks, S, n) ==
    IF n = 0
    THEN S
    ELSE ReachedFrom(tks,
                     S \cup {b \in TaskIds : \E a \in S : DependsOn(tks, a, b)},
                     n - 1)

(* some task is reached from its own dependencies *)
HasCycle(tks) ==
    \E i \in 1..Len(tks) :
        tks[i].id \in ReachedFrom(tks,
                                  {b \in TaskIds : DependsOn(tks, tks[i].id, b)},
                                  Len(tks))

(* each task of the list depends on the next and the last on the first *)
IsCycle(tks, list) ==
    /\ Len(list) >= 1
    /\ \A i \in 1..Len(list) :
          DependsOn(tks, list[i], list[(i % Len(list)) + 1])

(* C29: conflict detection reports at least one dependency_deadlock, of    *)
(* severity high, if and only if the dependency graph has a cycle, a task  *)
(* depending on itself included; the task list of every reported deadlock  *)
(* is a cycle of the graph; two mutually dependent tasks T1 and T2 yield a *)
(* conflict listing [T1, T2].                                              *)
C29_DeadlockIffCycle ==
    conflicts # NotDetected
    => /\ (Reported("dependency_deadlock") # {}) <=> HasCycle(tasks)
       /\ \A k \in Reported("dependency_deadlock") :
             /\ conflicts[k].severity = "high"
             /\ IsCycle(tasks, conflicts[k].involvedTasks)
       /\ (/\ Len(tasks) >= 2
           /\ tasks[1].dependencies = <<tasks[2].id>>
           /\ tasks[2].dependencies = <<tasks[1].id>>)
          => \E k \in Reported("dependency_deadlock") :
                conflicts[k].involvedTasks = <<tasks[1].id, tasks[2].id>>

(* detection reported a cycle through three tasks, and a task that        *)
(* depends on itself as a cycle of its own                                 *)
C29_Witness ==
    /\ handled = "detect_conflicts"
    /\ \E k \in Reported("dependency_deadlock") :
          Len(conflicts[k].involvedTasks) = 3
    /\ \E i \in 1..Len(tasks) :
          /\ DependsOn(tasks, tasks[i].id, tasks[i].id)
          /\ \E k \in Reported("dependency_deadlock") :
                conflicts[k].involvedTasks = <<tasks[i].id>>

(* C30: one run of conflict detection never reports the same cycle twice:  *)
(* no two dependency_deadlock conflicts of a run carry the same task list, *)
(* also when a dependency list names the same task id more than once.      *)
C30_NoCycleReportedTwice ==
    \A j, k \in Reported("dependency_deadlock") :
        j # k => conflicts[j].involvedTasks # conflicts[k].involvedTasks

(* the task is assigned or in_progress and its agent, an agent of the      *)
(* registry, lacks one of the capabilities the task requires               *)
Mismatched(task) ==
    /\ task.status \in ActiveStatuses
    /\ MapHas(agents, task.assignedAgent)
    /\ \E k \in 1..Len(task.requiredCapabilities) :
          task.requiredCapabilities[k]
             \notin MapGet(agents, task.assignedAgent).capabilities

(* C31: conflict detection reports capability_mismatch, of severity low,   *)
(* for exactly the tasks in assigned or in_progress whose assigned agent   *)
(* lacks a required capability, and the resolution text names exactly the  *)
(* missing capabilities; a task assigned by soft matching to an agent with *)
(* partial coverage is reported.                                           *)
C31_MismatchReported ==
    conflicts # NotDetected
    => /\ \A i \in 1..Len(tasks) :
             Mismatched(tasks[i])
             <=> \E k \in Reported("capability_mismatch") :
                    conflicts[k].involvedTasks = <<tasks[i].id>>
       /\ \A k \in Reported("capability_mismatch") :
             LET task == MapGet(tasks, conflicts[k].involvedTasks[1])
                 named == Tail(conflicts[k].suggestedResolution)
             IN /\ conflicts[k].severity = "low"
                /\ conflicts[k].involvedAgents = <<task.assignedAgent>>
                /\ {named[j] : j \in 1..Len(named)}
                      = {task.requiredCapabilities[j] :
                            j \in {x \in 1..Len(task.requiredCapabilities) :
                                      task.requiredCapabilities[x] \notin
                                         MapGet(agents, task.assignedAgent)
                                            .capabilities}}

(* detection reported the task that requires python and sql and is         *)
(* assigned to an agent that has python alone, naming sql, and did not     *)
(* report a completed task with the same requirement                       *)
C31_Witness ==
    /\ handled = "detect_conflicts"
    /\ \E k \in Reported("capability_mismatch") :
          /\ MapGet(tasks, conflicts[k].involvedTasks[1]).requiredCapabilities
                = <<"python", "sql">>
          /\ conflicts[k].suggestedResolution = <<"A1", "sql">>
    /\ \E i \in 1..Len(tasks) :
          /\ tasks[i].status = "completed"
          /\ tasks[i].requiredCapabilities = <<"python", "sql">>
          /\ \A k \in Reported("capability_mismatch") :
                conflicts[k].involvedTasks # <<tasks[i].id>>

IsDetectConflictsStep ==
    /\ conflicts = NotDetected
    /\ conflicts' # NotDetected

(* C33: detection leaves every agent, task and assignment record           *)
(* unchanged, and emits conflicts_detected, carrying the full list, exactly *)
(* when the list it returns is not empty.                                  *)
C33_DetectionReadsAndAnnounces ==
    [][IsDetectConflictsStep
       => /\ agents' = agents
          /\ tasks' = tasks
          /\ assignments' = assignments
          /\ IF Len(conflicts') > 0
             THEN emitted' = Append(emitted,
                                    [type |-> "conflicts_detected",
                                     agentId |-> Undefined,
                                     taskId |-> Undefined,
                                     conflicts |-> conflicts'])
             ELSE emitted' = emitted]_vars

(* detection returned two conflicts and the event delivered carries both *)
C33_Witness ==
    /\ handled = "detect_conflicts"
    /\ Len(conflicts) = 2
    /\ Len(emitted) = 1
    /\ emitted[1].type = "conflicts_detected"
    /\ Len(emitted[1].conflicts) = 2

(* how many of the first n delivered events are type events about a        *)
(* conflict of the given type                                              *)
ResolutionEvents(type, conflictType, n) ==
    Cardinality({p \in 1..n : /\ emitted[p].type = type
                               /\ emitted[p].conflictType = conflictType})

ConflictTypes ==
    {"resource_contention", "dependency_deadlock", "capability_mismatch"}

(* one start per detected conflict, no end without an earlier start of its *)
(* own, never more ends than conflicts                                     *)
ResolutionsPaired ==
    conflicts # NotDetected
    => \A ct \in ConflictTypes :
          /\ ResolutionEvents("conflict_resolution_started", ct,
                              Len(emitted))
                = Cardinality(Reported(ct))
          /\ \A n \in 0..Len(emitted) :
                ResolutionEvents("conflict_resolved", ct, n)
                   <= ResolutionEvents("conflict_resolution_started", ct, n)

(* every resolution that was started has ended *)
AllResolved ==
    \A ct \in ConflictTypes :
        ResolutionEvents("conflict_resolved", ct, Len(emitted))
           = ResolutionEvents("conflict_resolution_started", ct, Len(emitted))

(* C32: for every conflict detection returns, resolution broadcasts one    *)
(* conflict_resolution_started event and later exactly one                 *)
(* conflict_resolved event of the same conflict type, the start always     *)
(* before the end, and it changes no task, agent or assignment.            *)
C32_StartedThenResolvedOnce ==
    /\ []ResolutionsPaired
    /\ [][/\ agents' = agents
          /\ tasks' = tasks
          /\ assignments' = assignments]_vars
    /\ (conflicts # NotDetected) ~> [](AllResolved /\ timers = <<>>)

(* the three types of conflict were detected at once, and the ends came    *)
(* in the order of the delays: mismatch, contention, deadlock              *)
C32_Witness ==
    /\ conflicts # NotDetected
    /\ \A ct \in ConflictTypes : Reported(ct) # {}
    /\ timers = <<>>
    /\ AllResolved
    /\ emitted[Len(emitted)].type = "conflict_resolved"
    /\ emitted[Len(emitted)].conflictType = "dependency_deadlock"
    /\ emitted[Len(emitted) - 1].conflictType = "resource_contention"

IdleOnline(agent) ==
    /\ agent.status = "online"
    /\ ~Truthy(agent.currentTask)

(* C35: when an update_progress that completes a task has been fully       *)
(* processed, no task is left pending with all its dependencies completed  *)
(* while some agent is online with an empty current_task.                  *)
C35_NoEligibleTaskLeftWaiting ==
    [][\A t \in TaskIds, u \in UpdateInputs, d \in Durations :
          (/\ handled' = "task_progress"
           /\ MapHas(tasks, t)
           /\ MapGet(tasks, t).status # "completed"
           /\ Has(u, "status") /\ u.status = "completed"
           /\ MapGet(tasks', t).status = "completed"
           /\ IsTaskProgressStep(t, u, d))
          => ~(/\ \E i \in 1..Len(tasks') :
                    /\ tasks'[i].status = "pending"
                    /\ DependenciesCompleted(tasks', tasks'[i])
               /\ \E j \in 1..Len(agents') : IdleOnline(agents'[j]))]_vars

(* the positions of the tasks that wait and that the completion of t       *)
(* leaves with no uncompleted dependency                                   *)
EligibleAfter(t) ==
    {i \in 1..Len(tasks) :
        /\ tasks[i].status = "pending"
        /\ tasks[i].id # t
        /\ DependenciesCompleted(tasks', tasks[i])}

(* C36: process_pending_tasks offers agents to the pending tasks in the    *)
(* order of their creation: when several pending tasks are eligible and    *)
(* one agent alone is available, the eligible task created first is        *)
(* assigned, whatever the priorities of the tasks.                         *)
C36_EarliestEligibleFirst ==
    [][\A t \in TaskIds, u \in UpdateInputs, d \in Durations :
          (/\ handled' = "task_progress"
           /\ MapHas(tasks, t)
           /\ MapGet(tasks, t).status # "completed"
           /\ MapGet(tasks', t).status = "completed"
           /\ ~Truthy(MapGet(tasks, t).assignedAgent)
           /\ Cardinality({j \in 1..Len(agents) : IdleOnline(agents[j])}) = 1
           /\ Cardinality(EligibleAfter(t)) > 1
           /\ IsTaskProgressStep(t, u, d))
          => LET first == CHOOSE i \in EligibleAfter(t) :
                              \A k \in EligibleAfter(t) : i <= k
                 agent == CHOOSE j \in 1..Len(agents) : IdleOnline(agents[j])
             IN /\ tasks'[first].status = "assigned"
                /\ tasks'[first].assignedAgent = agents[agent].id
                /\ \A k \in EligibleAfter(t) \ {first} :
                      tasks'[k].status = "pending"]_vars

(* the completion of T1 gave the one agent to T2, of priority low, and     *)
(* left T3, of priority critical and as eligible, waiting                  *)
C36_Witness ==
    /\ handled = "task_progress"
    /\ Len(tasks) = 3
    /\ Len(agents) = 1
    /\ tasks[1].status = "completed"
    /\ tasks[2].status = "assigned"
    /\ tasks[2].priority = "low"
    /\ tasks[3].status = "pending"
    /\ tasks[3].priority = "critical"
    /\ DependenciesCompleted(tasks, tasks[3])

(* the ids of the tasks in assigned or in_progress that name the agent *)
ActiveIdsOf(a) ==
    {tasks[x].id : x \in ActiveTasksOf(tasks, a)}

(* C37: if a busy agent registers again and is then assigned a second task *)
(* while its first is still assigned or in_progress, the next detection of *)
(* conflicts reports a resource_contention conflict that names the agent   *)
(* and both tasks.                                                         *)
C37_ReRegisteredAgentReported ==
    conflicts # NotDetected
    => \A i \in 1..Len(agents) :
          \A t1 \in ActiveIdsOf(agents[i].id) :
              (/\ agents[i].status = "busy"
               /\ agents[i].currentTask \in ActiveIdsOf(agents[i].id) \ {t1})
              => \E k \in Reported("resource_contention") :
                    /\ conflicts[k].involvedAgents = <<agents[i].id>>
                    /\ {t1, agents[i].currentTask}
                          \subseteq {conflicts[k].involvedTasks[x] :
                                       x \in 1..Len(conflicts[k]
                                                       .involvedTasks)}

(* A1, working on T1, registered again and was given T2; the detection     *)
(* that followed names A1 with T1 and T2                                   *)
C37_Witness ==
    /\ handled = "detect_conflicts"
    /\ Cardinality({p \in 1..Len(emitted) :
                       /\ emitted[p].type = "agent_joined"
                       /\ emitted[p].agentId = "A1"}) = 2
    /\ Len(tasks) = 2
    /\ MapGet(tasks, "T1").status = "in_progress"
    /\ MapGet(tasks, "T1").assignedAgent = "A1"
    /\ MapGet(tasks, "T2").status = "assigned"
    /\ MapGet(agents, "A1").currentTask = "T2"
    /\ \E k \in Reported("resource_contention") :
          /\ conflicts[k].involvedAgents = <<"A1">>
          /\ conflicts[k].involvedTasks = <<"T1", "T2">>

(* C38: each task counts at most once: an update_progress with status      *)
(* completed (or failed) for a task that is already completed (or failed)  *)
(* leaves tasks_completed, average_task_time and performance_score of      *)
(* every agent unchanged.                                                  *)
C38_RepeatedTerminalUpdateCountsNothing ==
    [][\A t \in TaskIds, u \in UpdateInputs, d \in Durations :
          (/\ handled' = "task_progress"
           /\ MapHas(tasks, t)
           /\ MapGet(tasks, t).status \in TerminalStatuses
           /\ Has(u, "status")
           /\ u.status = MapGet(tasks, t).status
           /\ IsTaskProgressStep(t, u, d))
          => \A i \in 1..Len(agents) :
                /\ agents'[i].tasksCompleted = agents[i].tasksCompleted
                /\ agents'[i].averageTaskTime = agents[i].averageTaskTime
                /\ agents'[i].performanceScore
                      = agents[i].performanceScore]_vars

(* the events of a type about a task that a step sent to every client *)
DeliveredAbout(type, taskId) ==
    {j \in (Len(emitted) + 1)..Len(emitted') :
        /\ emitted'[j].type = type
        /\ emitted'[j].taskId = taskId}

(* C39: each assignment made while a create_task message is handled        *)
(* results in exactly one task_assigned event for that task being          *)
(* delivered to the connected observers.                                   *)
C39_OneAssignedEventPerAssignment ==
    [][\A data \in CreateInputs(tasks) :
          (/\ handled' = "create_task"
           /\ IsCreateTaskStep(data))
          => LET c == createTask(State, data)
             IN assignOptimalAgent(c.s, c.task.id).result = "assigned"
                => Cardinality(DeliveredAbout("task_assigned", c.task.id))
                     = 1]_vars

(* C40: for every required-capability set that is not empty and any        *)
(* performance scores within 0.1 .. 2.0, an online idle agent that has all *)
(* required capabilities scores strictly higher than an online idle agent  *)
(* that has none, so select never returns an agent of zero coverage while  *)
(* an agent of full coverage is available.                                 *)
C40_FullCoverageBeatsNone ==
    (selected # NotCalled /\ Len(required) > 0)
    => /\ \A i, j \in Candidates(agents) :
             (/\ Covered(agents[i], required) = Len(required)
              /\ Covered(agents[j], required) = 0)
             => totalScore(agents[i], required)
                  > totalScore(agents[j], required)
       /\ (\E i \in Candidates(agents) :
              Covered(agents[i], required) = Len(required))
          => \E k \in Candidates(agents) :
                /\ agents[k].id = selected
                /\ Covered(agents[k], required) > 0

(* select returned the agent that has both required capabilities and the   *)
(* lowest score, 0.1, over an idle agent that has neither and the highest  *)
(* score, 2.0, registered before it                                        *)
C40_Witness ==
    /\ required = <<"python", "react">>
    /\ Len(agents) = 2
    /\ Candidates(agents) = {1, 2}
    /\ agents[1].capabilities = {}
    /\ agents[1].performanceScore = 2 * PerfScale
    /\ agents[2].capabilities = {"python", "react"}
    /\ agents[2].performanceScore = PerfScale \div 10
    /\ selected = agents[2].id

====
